---- MODULE Spec2Model ----
(***************************************************************************)
(* Analytics layer of the customs reporting scripts: the KPI status        *)
(* classifier, the composite risk score and its grading, the HHI           *)
(* concentration index, the Pareto zoning, the period growth series and    *)
(* the volatility (coefficient of variation).                              *)
(*                                                                         *)
(* Every analytics function is request-scoped: it runs one aggregate query *)
(* and post-processes the rows.  One action models one call: it draws the  *)
(* rows the query can return and runs the whole function on them.  The     *)
(* initial state holds the function to call (op) and the rows its query    *)
(* returns (args); the function's action computes result and ends the call.*)
(*                                                                         *)
(* Numbers.  Amounts and counts are integers.  Quotients are kept exact:   *)
(* a value with d decimals is the integer number of 10^-d units (tenths,   *)
(* hundredths), a ratio is a pair [n, d].  A float that can be not-a-number*)
(* or infinite is a record [k, v]: Num(v), NaN, PInf, NInf.                *)
(***************************************************************************)
EXTENDS Integers, Sequences, FiniteSets

VARIABLES op, args, result, pc

vars == <<op, args, result, pc>>

\* ---------------------------------------------------------------- bounds
MaxKpiStep == 12      \* KPI values range over 0, 5, .., 5 * MaxKpiStep
MaxGroups == 2        \* HS4 x country groups in the risk table
MaxRuns == 2          \* runs of equal-valued categories in the HHI table
MaxReps == 6          \* categories per run in the HHI table
MaxVal == 3           \* largest category value in the HHI table
MaxRows == 3          \* category rows in the Pareto table
MaxPeriods == 3       \* periods (years, months) in the revenue table
MaxMonths == 3        \* monthly rows in the volatility series
MaxDecls == 3         \* declarations in the unit-price table
MaxItems == 3         \* rows of the item table in the country queries
MaxOps == 3
MaxItemRows == 2
StatusMargin == 1           \* operations on the KPI definitions in one process

\* ------------------------------------------------------------ arithmetic
Abs(x) == IF x < 0 THEN -x ELSE x

Num(v) == [k |-> "num", v |-> v]
NaN == [k |-> "nan", v |-> 0]
PInf == [k |-> "inf", v |-> 1]
NInf == [k |-> "inf", v |-> -1]

IsNum(x) == x.k = "num"
IsNaN(x) == x.k = "nan"

\* r is n/d (d > 0) rounded to a nearest integer, whatever the tie rule
IsNearest(r, n, d) == 2 * Abs(r * d - n) <= d

\* numpy / Python rounding of n/d (d > 0): nearest integer, ties to even
RoundHalfEven(n, d) ==
    LET q == (2 * n + d) \div (2 * d)
    IN  IF (2 * n + d) % (2 * d) = 0 /\ q % 2 # 0 THEN q - 1 ELSE q

\* Oracle ROUND of n/d (d > 0): nearest integer, ties away from zero
RoundHalfAway(n, d) ==
    IF n >= 0 THEN (2 * n + d) \div (2 * d)
    ELSE -((2 * (-n) + d) \div (2 * d))

RECURSIVE SumSeq(_)
SumSeq(s) == IF s = <<>> THEN 0 ELSE Head(s) + SumSeq(Tail(s))

\* all orders of the rows of a table
Perms(s) ==
    {p \in [DOMAIN s -> DOMAIN s] : \A i, j \in DOMAIN s : i # j => p[i] # p[j]}

Reorder(s, p) == [i \in DOMAIN s |-> s[p[i]]]

\* the call of function name is about to run
Ready(name) == pc = "ready" /\ op = name

\* a call of function name on the rows a, not yet run
Pending(name, a) == op = name /\ args = a /\ result = <<>> /\ pc = "ready"

\* the pending call of function name runs and returns r
Return(name, r) ==
    /\ pc = "ready" /\ op = name
    /\ result' = r /\ pc' = "done"
    /\ UNCHANGED <<op, args>>

\* the call of function name has returned
Done(name) == pc = "done" /\ op = name

\* ------------------------------------------------- KPICalculator._get_status
Directions == {"higher", "lower"}

KpiVals == {5 * i : i \in 0..MaxKpiStep}

get_status_flipped(actual, benchmark, target, direction) ==
    IF direction = "higher"
    THEN IF actual > target THEN "Excellent"
         ELSE IF actual >= benchmark THEN "Good"
         ELSE "Needs Improvement"
    ELSE IF actual <= target THEN "Excellent"
         ELSE IF actual <= benchmark THEN "Good"
         ELSE "Needs Improvement"

get_status(actual, benchmark, target, direction) ==
    IF direction = "higher"
    THEN IF actual >= target THEN "Excellent"
         ELSE IF actual >= benchmark THEN "Good"
         ELSE "Needs Improvement"
    ELSE IF actual <= target THEN "Excellent"
         ELSE IF actual <= benchmark THEN "Good"
         ELSE "Needs Improvement"

GetStatusInputs ==
    [actual : KpiVals, benchmark : KpiVals, target : KpiVals, direction : Directions]

GetStatus ==
    /\ Ready("_get_status")
    /\ Return("_get_status",
              get_status(args.actual, args.benchmark, args.target, args.direction))

\* ------------------------------------- detect_anomalies.calculate_risk_score
\* The risk table after GROUP BY HS4, ORIG_CNTY_CD: one row per group with
\* COUNT(*), SUM(HS_CHANGED) and SUM(UNDERVALUED); the sums count rows of the
\* group, so neither exceeds the count.  key stands for (HS4, COUNTRY).
TotalCounts == {100, 300, 500}

FlagCounts == {0, 10, 20, 50, 100}

RiskGroups ==
    {g \in [total : TotalCounts, hs_changed : FlagCounts, undervalued : FlagCounts] :
        g.hs_changed <= g.total /\ g.undervalued <= g.total}

RiskTables == UNION {[1..n -> RiskGroups] : n \in 0..MaxGroups}

UndervalWeight == 3
HsChangeWeight == 2
MinFlagged == 50
RiskFetchFirst == 50
AnomalyFetchFirst == 30
HighRiskScore == 80

\* ROUND(SUM(UNDERVALUED) * 100.0 / COUNT(*), 1), in tenths
UndervalueRate(g) == RoundHalfAway(10 * (g.undervalued * 100), g.total)

RiskScoreExpr_swapped(undervalued, hs_changed, total) ==
    RoundHalfAway(10 * (undervalued * HsChangeWeight * 100 + hs_changed * UndervalWeight * 100),
                  total)

\* ROUND(SUM(UNDERVALUED) * 3.0 / COUNT(*) * 100
\*       + SUM(HS_CHANGED) * 2.0 / COUNT(*) * 100, 1), in tenths
RiskScoreExpr(undervalued, hs_changed, total) ==
    RoundHalfAway(10 * (undervalued * UndervalWeight * 100 + hs_changed * HsChangeWeight * 100),
                  total)

\* the SELECT list of the risk query for the group with key i
RiskRow(tbl, i) ==
    [key |-> i,
     TOTAL_CNT |-> tbl[i].total,
     HS_CHANGE_CNT |-> tbl[i].hs_changed,
     UNDERVALUE_CNT |-> tbl[i].undervalued,
     UNDERVALUE_RATE |-> UndervalueRate(tbl[i]),
     RISK_SCORE |-> RiskScoreExpr(tbl[i].undervalued, tbl[i].hs_changed, tbl[i].total)]

\* HAVING SUM(UNDERVALUED) >= 50 OR SUM(HS_CHANGED) >= 50
RiskHaving(g) == g.undervalued >= MinFlagged \/ g.hs_changed >= MinFlagged

\* ORDER BY RISK_SCORE DESC: the order of equal scores is the database's
IsScoreDesc(rows) ==
    \A i, j \in DOMAIN rows : i < j => rows[i].RISK_SCORE >= rows[j].RISK_SCORE

FirstRows(rows, n) == SubSeq(rows, 1, IF Len(rows) < n THEN Len(rows) ELSE n)

\* the SELECT rows of the groups of the table that pass HAVING
RiskKept(tbl) ==
    SelectSeq([i \in DOMAIN tbl |-> RiskRow(tbl, i)], LAMBDA r : RiskHaving(tbl[r.key]))

\* the results the query can return for the kept rows: ordered, cut at limit
QueryResults(kept, limit) ==
    {FirstRows(Reorder(kept, p), limit) :
        p \in {q \in Perms(kept) : IsScoreDesc(Reorder(kept, q))}}

RiskBins == <<30, 50, 80>>

\* pd.cut(RISK_SCORE, bins=[-inf, 30, 50, 80, inf], labels=[..]): the bins are
\* closed on the right, (-inf, 30], (30, 50], (50, 80], (80, inf)
RiskGrade(score) ==
    IF score <= 10 * RiskBins[1] THEN "NORMAL"
    ELSE IF score <= 10 * RiskBins[2] THEN "LOW"
    ELSE IF score <= 10 * RiskBins[3] THEN "MEDIUM"
    ELSE "HIGH"

\* the frame calculate_risk_score returns; the HS_NAME and COUNTRY_NAME
\* display columns are left out
calculate_risk_score(rows) ==
    [i \in DOMAIN rows |->
        [key |-> rows[i].key,
         TOTAL_CNT |-> rows[i].TOTAL_CNT,
         HS_CHANGE_CNT |-> rows[i].HS_CHANGE_CNT,
         UNDERVALUE_CNT |-> rows[i].UNDERVALUE_CNT,
         UNDERVALUE_RATE |-> rows[i].UNDERVALUE_RATE,
         RISK_SCORE |-> rows[i].RISK_SCORE,
         RISK_GRADE |-> RiskGrade(rows[i].RISK_SCORE)]]

CalculateRiskScore ==
    /\ Ready("calculate_risk_score")
    /\ \E rows \in QueryResults(RiskKept(args), RiskFetchFirst) :
            Return("calculate_risk_score", calculate_risk_score(rows))

\* ------------------------------ create_styled_reports.create_anomaly_report
\* HAVING SUM(UNDERVALUED) >= 50
AnomalyHaving(g) == g.undervalued >= MinFlagged

AnomalyKept(tbl) ==
    SelectSeq([i \in DOMAIN tbl |-> RiskRow(tbl, i)], LAMBDA r : AnomalyHaving(tbl[r.key]))

\* the df_risk query of create_anomaly_report and the count of high-risk
\* combinations shown on the cover sheet
anomaly_risk(rows) ==
    [df_risk |-> rows,
     high_risk |-> Cardinality({i \in DOMAIN rows :
                                   rows[i].RISK_SCORE >= 10 * HighRiskScore})]

CreateAnomalyReport ==
    /\ Ready("create_anomaly_report")
    /\ \E rows \in QueryResults(AnomalyKept(args), AnomalyFetchFirst) :
            Return("create_anomaly_report", anomaly_risk(rows))

\* -------------------------------------- KPICalculator.calc_hhi_by_dimension
\* The category table after GROUP BY: one value per category, in the order
\* the database returns them (the query has no ORDER BY).  The tables are
\* built from runs of equal-valued categories so that they reach the eleven
\* categories a competitive market needs.
HhiVals == -1..MaxVal

Run(v, n) == [i \in 1..n |-> v]

RECURSIVE RunTables(_)
RunTables(k) ==
    IF k = 0 THEN {<<>>}
    ELSE LET shorter == RunTables(k - 1)
         IN  shorter \cup {t \o Run(v, n) : t \in shorter, v \in HhiVals, n \in 1..MaxReps}

HhiTables == RunTables(MaxRuns)

Dimensions == {"hs2", "country"}

HhiScale == 10000
HhiLow == 1000
HhiModerate == 1800
TopN == 5

RECURSIVE SumSquares(_)
SumSquares(s) == IF s = <<>> THEN 0 ELSE Head(s) * Head(s) + SumSquares(Tail(s))

RECURSIVE MaxOf(_)
MaxOf(s) ==
    IF Len(s) = 1 THEN s[1]
    ELSE LET m == MaxOf(Tail(s)) IN IF s[1] >= m THEN s[1] ELSE m

\* s without its first occurrence of x
RECURSIVE RemoveFirst(_, _)
RemoveFirst(s, x) ==
    IF s = <<>> THEN <<>>
    ELSE IF Head(s) = x THEN Tail(s)
    ELSE <<Head(s)>> \o RemoveFirst(Tail(s), x)

\* df.nlargest(n, 'value'): the values of the n largest rows, largest first
RECURSIVE NLargest(_, _)
NLargest(s, n) ==
    IF n = 0 \/ s = <<>> THEN <<>>
    ELSE <<MaxOf(s)>> \o NLargest(RemoveFirst(s, MaxOf(s)), n - 1)

Total_abs(values) == SumSeq([i \in DOMAIN values |-> Abs(values[i])])

\* df['value'].sum()
Total(values) == SumSeq(values)

HhiLevel_inclusive(n, d) ==
    IF n <= HhiLow * d THEN "Low (Competitive)"
    ELSE IF n <= HhiModerate * d THEN "Moderate"
    ELSE "High (Concentrated)"

\* the interpretation of the unrounded hhi n/d (d > 0)
HhiLevel(n, d) ==
    IF n < HhiLow * d THEN "Low (Competitive)"
    ELSE IF n < HhiModerate * d THEN "Moderate"
    ELSE "High (Concentrated)"

\* df['share_squared'].sum() * 10000 as the ratio n/d, for total > 0
HhiExact(values) ==
    [n |-> HhiScale * SumSquares(values), d |-> Total(values) * Total(values)]

\* round(df.nlargest(5, 'value')['share'].sum() * 100, 1), in tenths
Top5Share(values) ==
    RoundHalfEven(10 * 100 * SumSeq(NLargest(values, TopN)), Total(values))

\* calc_hhi_by_dimension on the rows its query returned.  With total <= 0 the
\* frame has no share column and df.nlargest(..)['share'] raises KeyError.
\* share is the ratio n/d; df is the function's local frame.
calc_hhi_by_dimension(dimension, values) ==
    IF dimension \notin Dimensions THEN [raised |-> "ValueError"]
    ELSE IF Total(values) > 0
    THEN [raised |-> "none",
          dimension |-> dimension,
          df |-> [i \in DOMAIN values |->
                    [category |-> i, value |-> values[i],
                     share |-> [n |-> values[i], d |-> Total(values)]]],
          hhi_exact |-> HhiExact(values),
          hhi |-> RoundHalfEven(HhiExact(values).n, HhiExact(values).d),
          concentration_level |-> HhiLevel(HhiExact(values).n, HhiExact(values).d),
          top_5_share |-> Top5Share(values),
          total_categories |-> Len(values)]
    ELSE [raised |-> "KeyError"]

\* category values that put the index within half a point of a threshold
SkewedVals == {16, 49}

SkewedTables ==
    {Run(a, m) \o Run(b, n) : a \in SkewedVals, b \in SkewedVals, m \in {1}, n \in 1..MaxReps}

HhiInputs ==
    [dimension : Dimensions, rows : HhiTables \cup SkewedTables]
        \cup {[dimension |-> "hs4", rows |-> <<>>]}

CalcHhiByDimension ==
    /\ Ready("calc_hhi_by_dimension")
    /\ Return("calc_hhi_by_dimension", calc_hhi_by_dimension(args.dimension, args.rows))

\* --------------------------------------- KPICalculator.calc_pareto_analysis
\* The category table before the query orders it: one value per category;
\* category i is the i-th row of the table.
ParetoVals == {-1, 0, 1, 4, 15}

ParetoTables == UNION {[1..n -> ParetoVals] : n \in 0..MaxRows}

ParetoInputs ==
    [dimension : Dimensions, rows : ParetoTables] \cup {[dimension |-> "hs4", rows |-> <<>>]}

ZoneA == 80
ZoneB == 95

\* the rows the query selects from the table
CategoryRows(values) == [i \in DOMAIN values |-> [category |-> i, value |-> values[i]]]

IsValueDesc_unordered(rows) == TRUE

\* ORDER BY value DESC: the order of equal values is the database's
IsValueDesc(rows) ==
    \A i, j \in DOMAIN rows : i < j => rows[i].value >= rows[j].value

\* the orders in which the query can return the categories
ParetoQueryResults(values) ==
    {Reorder(CategoryRows(values), p) :
        p \in {q \in Perms(values) : IsValueDesc(Reorder(CategoryRows(values), q))}}

\* (value / total * 100).round(2), in hundredths; a float division by zero
\* gives an infinity, or not-a-number for 0/0
SharePct(value, total) ==
    IF total = 0
    THEN IF value > 0 THEN PInf ELSE IF value < 0 THEN NInf ELSE NaN
    ELSE IF total > 0 THEN Num(RoundHalfEven(value * 100 * 100, total))
    ELSE Num(RoundHalfEven((-value) * 100 * 100, -total))

\* float addition
FAdd(x, y) ==
    IF IsNaN(x) \/ IsNaN(y) THEN NaN
    ELSE IF IsNum(x) /\ IsNum(y) THEN Num(x.v + y.v)
    ELSE IF IsNum(x) THEN y
    ELSE IF IsNum(y) THEN x
    ELSE IF x.v = y.v THEN x
    ELSE NaN

\* Series.cumsum(): not-a-number entries are skipped by the running sum and
\* stay not-a-number in the output
RECURSIVE CumSum(_, _)
CumSum(s, acc) ==
    IF s = <<>> THEN <<>>
    ELSE IF IsNaN(Head(s)) THEN <<NaN>> \o CumSum(Tail(s), acc)
    ELSE <<FAdd(acc, Head(s))>> \o CumSum(Tail(s), FAdd(acc, Head(s)))

\* x <= bound for a float x and a number bound (in hundredths)
FLeq(x, bound) ==
    IF IsNum(x) THEN x.v <= bound
    ELSE IF IsNaN(x) THEN FALSE
    ELSE x.v < 0

ParetoZone_strict(x) ==
    IF FLeq(x, 100 * ZoneA) /\ x # Num(100 * ZoneA) THEN "A (Top 80%)"
    ELSE IF FLeq(x, 100 * ZoneB) THEN "B (80-95%)"
    ELSE "C (Bottom 5%)"

\* 'A (Top 80%)' if x <= 80 else 'B (80-95%)' if x <= 95 else 'C (Bottom 5%)'
ParetoZone(x) ==
    IF FLeq(x, 100 * ZoneA) THEN "A (Top 80%)"
    ELSE IF FLeq(x, 100 * ZoneB) THEN "B (80-95%)"
    ELSE "C (Bottom 5%)"

pareto_frame_zone_of_share(rows) ==
    LET total == SumSeq([i \in DOMAIN rows |-> rows[i].value])
        share == [i \in DOMAIN rows |-> SharePct(rows[i].value, total)]
        cumulative == CumSum(share, Num(0))
    IN  [i \in DOMAIN rows |->
            [category |-> rows[i].category,
             value |-> rows[i].value,
             share_pct |-> share[i],
             cumulative_pct |-> cumulative[i],
             rank |-> i,
             pareto_zone |-> ParetoZone(share[i])]]

\* the frame calc_pareto_analysis builds from the ordered query rows
pareto_frame(rows) ==
    LET total == SumSeq([i \in DOMAIN rows |-> rows[i].value])
        share == [i \in DOMAIN rows |-> SharePct(rows[i].value, total)]
        cumulative == CumSum(share, Num(0))
    IN  [i \in DOMAIN rows |->
            [category |-> rows[i].category,
             value |-> rows[i].value,
             share_pct |-> share[i],
             cumulative_pct |-> cumulative[i],
             rank |-> i,
             pareto_zone |-> ParetoZone(cumulative[i])]]

CalcParetoAnalysis ==
    /\ Ready("calc_pareto_analysis")
    /\ \/ /\ args.dimension \notin Dimensions
          /\ Return("calc_pareto_analysis", [raised |-> "ValueError"])
       \/ /\ args.dimension \in Dimensions
          /\ \E rows \in ParetoQueryResults(args.rows) :
                Return("calc_pareto_analysis",
                       [raised |-> "none", df |-> pareto_frame(rows)])

\* ------------------------- KPICalculator.calc_yoy_growth / calc_mom_growth
\* The revenue table after GROUP BY period: a function from the periods that
\* have declarations to their COUNT(*) and SUM(ITM_TAX_AMT).  Periods are
\* numbered in chronological order.
TaxVals == {-100, 0, 99, 100, 110}

CountVals == {1, 2}

PeriodAggregates == [declaration_count : CountVals, total_tax : TaxVals]

RevenueTables == UNION {[P -> PeriodAggregates] : P \in SUBSET (1..MaxPeriods)}

MaxIn(S) == CHOOSE x \in S : \A y \in S : y <= x
MinIn(S) == CHOOSE x \in S : \A y \in S : x <= y

\* calc_revenue_by_period: the rows of the table, ORDER BY period DESC
RECURSIVE PeriodsDesc(_)
PeriodsDesc(P) ==
    IF P = {} THEN <<>> ELSE <<MaxIn(P)>> \o PeriodsDesc(P \ {MaxIn(P)})

calc_revenue_by_period(tbl) ==
    LET ps == PeriodsDesc(DOMAIN tbl)
    IN  [i \in DOMAIN ps |->
            [period |-> ps[i],
             declaration_count |-> tbl[ps[i]].declaration_count,
             total_tax |-> tbl[ps[i]].total_tax]]

\* df.sort_values('period'): ascending
RECURSIVE sort_values(_)
sort_values(df) ==
    IF df = <<>> THEN <<>>
    ELSE LET first == MinIn({df[i].period : i \in DOMAIN df})
         IN  SelectSeq(df, LAMBDA r : r.period = first)
                \o sort_values(SelectSeq(df, LAMBDA r : r.period # first))

\* ((cur - prev) / prev * 100).round(1), in tenths; prev is not-a-number in
\* the first row, and a float division by zero gives an infinity or, for
\* 0/0, not-a-number
GrowthPct(cur, prev) ==
    IF ~IsNum(prev) THEN NaN
    ELSE IF prev.v = 0
    THEN IF cur > 0 THEN PInf ELSE IF cur < 0 THEN NInf ELSE NaN
    ELSE IF prev.v > 0 THEN Num(RoundHalfEven((cur - prev.v) * 100 * 10, prev.v))
    ELSE Num(RoundHalfEven(-(cur - prev.v) * 100 * 10, -prev.v))

\* column.shift(1): the value of the row before, not-a-number in the first
Shift(column, i) == IF i = 1 THEN NaN ELSE Num(column[i - 1])

TaxOf(df) == [i \in DOMAIN df |-> df[i].total_tax]
CountOf(df) == [i \in DOMAIN df |-> df[i].declaration_count]

\* df.dropna(): the rows that hold no not-a-number; floats names the columns
\* that hold floats
dropna(df, floats) == SelectSeq(df, LAMBDA r : \A c \in floats : ~IsNaN(r[c]))

calc_yoy_growth(tbl) ==
    LET df == sort_values(calc_revenue_by_period(tbl))
        out == [i \in DOMAIN df |->
                  [period |-> df[i].period,
                   declaration_count |-> df[i].declaration_count,
                   total_tax |-> df[i].total_tax,
                   prev_tax |-> Shift(TaxOf(df), i),
                   yoy_growth_pct |-> GrowthPct(df[i].total_tax, Shift(TaxOf(df), i)),
                   prev_count |-> Shift(CountOf(df), i),
                   yoy_count_growth_pct |->
                       GrowthPct(df[i].declaration_count, Shift(CountOf(df), i))]]
    IN  dropna(out, {"prev_tax", "yoy_growth_pct", "prev_count", "yoy_count_growth_pct"})

calc_mom_growth(tbl) ==
    LET df == sort_values(calc_revenue_by_period(tbl))
        out == [i \in DOMAIN df |->
                  [period |-> df[i].period,
                   declaration_count |-> df[i].declaration_count,
                   total_tax |-> df[i].total_tax,
                   prev_tax |-> Shift(TaxOf(df), i),
                   mom_growth_pct |-> GrowthPct(df[i].total_tax, Shift(TaxOf(df), i))]]
    IN  dropna(out, {"prev_tax", "mom_growth_pct"})

CalcYoyGrowth ==
    /\ Ready("calc_yoy_growth")
    /\ Return("calc_yoy_growth", calc_yoy_growth(args))

CalcMomGrowth ==
    /\ Ready("calc_mom_growth")
    /\ Return("calc_mom_growth", calc_mom_growth(args))

\* ---------------------------------------------- KPICalculator.calc_volatility
\* The total_tax column of the monthly revenue rows.
VolVals == {0, 50, 100, 110, 125, 150}

VolSeries == UNION {[1..n -> VolVals] : n \in 0..MaxMonths}

CvLow == 10
CvMedium == 20

\* n/d (n >= 0, d > 0) scaled by 100^k: the floor q and the remainder r,
\* 100^k * n / d = q + r/d
RECURSIVE ScaledDiv(_, _, _)
ScaledDiv(n, d, k) ==
    IF k = 0 THEN [q |-> n \div d, r |-> n % d]
    ELSE LET p == ScaledDiv(n, d, k - 1)
         IN  [q |-> 100 * p.q + (100 * p.r) \div d, r |-> (100 * p.r) % d]

\* the largest h in lo..hi with h * h <= x
RECURSIVE Isqrt(_, _, _)
Isqrt(x, lo, hi) ==
    IF lo = hi THEN lo
    ELSE LET mid == (lo + hi + 1) \div 2
         IN  IF mid * mid <= x THEN Isqrt(x, mid, hi) ELSE Isqrt(x, lo, mid - 1)

\* df['total_tax'].mean(): the ratio sum/len, not-a-number for no rows
Mean(xs) == IF Len(xs) = 0 THEN NaN ELSE [k |-> "num", n |-> SumSeq(xs), d |-> Len(xs)]

Variance_population(xs) ==
    IF Len(xs) < 2 THEN NaN
    ELSE [k |-> "num",
          n |-> Len(xs) * SumSquares(xs) - SumSeq(xs) * SumSeq(xs),
          d |-> Len(xs) * Len(xs)]

\* the square of df['total_tax'].std(), the sample standard deviation
\* (ddof = 1): not-a-number for fewer than two rows
Variance(xs) ==
    IF Len(xs) < 2 THEN NaN
    ELSE [k |-> "num",
          n |-> Len(xs) * SumSquares(xs) - SumSeq(xs) * SumSeq(xs),
          d |-> Len(xs) * (Len(xs) - 1)]

\* cv = (std_tax / mean_tax * 100) if mean_tax > 0 else 0, kept as the ratio
\* n/d = (cv / 100)^2; not-a-number when std_tax is
CvSquared(xs) ==
    LET mean == Mean(xs)
        var == Variance(xs)
    IN  IF IsNum(mean) /\ mean.n > 0
        THEN IF IsNaN(var) THEN NaN
             ELSE [k |-> "num", n |-> var.n * mean.d * mean.d, d |-> var.d * mean.n * mean.n]
        ELSE [k |-> "num", n |-> 0, d |-> 1]

\* round(cv, 2) in hundredths: the integer nearest to sqrt(10^8 * n / d)
RoundCv(sq) ==
    IF IsNaN(sq) THEN NaN
    ELSE LET x == ScaledDiv(sq.n, sq.d, 4)
             h == Isqrt(x.q, 0, 46340)
             half == h * h + h
         IN  IF x.q > half \/ (x.q = half /\ 4 * x.r > sq.d) THEN Num(h + 1)
             ELSE IF x.q = half /\ 4 * x.r = sq.d /\ h % 2 = 1 THEN Num(h + 1)
             ELSE Num(h)

\* 'Low' if cv < 10 else 'Medium' if cv < 20 else 'High': cv >= 0, so cv < c
\* iff floor(cv^2) < c^2; every comparison with not-a-number is false
VolatilityRating(sq) ==
    IF IsNaN(sq) THEN "High"
    ELSE LET x == ScaledDiv(sq.n, sq.d, 2)
         IN  IF x.q < CvLow * CvLow THEN "Low"
             ELSE IF x.q < CvMedium * CvMedium THEN "Medium"
             ELSE "High"

calc_volatility(xs) ==
    [mean_monthly_tax |-> Mean(xs),
     std_monthly_tax_squared |-> Variance(xs),
     cv_squared |-> CvSquared(xs),
     coefficient_of_variation |-> RoundCv(CvSquared(xs)),
     volatility_rating |-> VolatilityRating(CvSquared(xs))]

CalcVolatility ==
    /\ Ready("calc_volatility")
    /\ Return("calc_volatility", calc_volatility(args))


\* -- KPICalculator.calc_undervaluation_stats / calc_hs_misclassification_rate
\* Rows of CLRI_TANSAD_UT_PRC_M.  yy is the two-digit TANSAD_YY; unit values
\* and invoice amounts are in USD.  The threshold is written in tenths, as
\* the decimal literal the f-string puts into the statement (1.3 is 13).
UndervalDecls ==
    [yy : {20, 21}, del_yn : {"N"}, dcld_ut : {0, 10}, assd_ut : {13, 14},
     dcld_invc : {100}, assd_invc : {90, 150}]
    \cup [yy : {19}, del_yn : {"N"}, dcld_ut : {10}, assd_ut : {14},
          dcld_invc : {100}, assd_invc : {150}]
    \cup [yy : {21}, del_yn : {"Y"}, dcld_ut : {10}, assd_ut : {14},
          dcld_invc : {100}, assd_invc : {150}]

UndervalTables == UNION {[1..n -> UndervalDecls] : n \in 0..MaxDecls}

Thresholds == {10, 13}

UndervalInputs == [threshold : Thresholds, rows : UndervalTables]

MisclassDecls ==
    [yy : {19, 20, 21}, del_yn : {"N", "Y"}, dcld_hs : {"8703"},
     assd_hs : {"8703", "8704"}]

MisclassTables == UNION {[1..n -> MisclassDecls] : n \in 0..MaxDecls}

\* WHERE DEL_YN = 'N' AND TANSAD_YY >= '20'
Selected(d) == d.del_yn = "N" /\ d.yy >= 20

\* GROUP BY TANSAD_YY: the years that have selected rows, and a year's rows
Years(tbl) == {tbl[i].yy : i \in {j \in DOMAIN tbl : Selected(tbl[j])}}

GroupRows(tbl, yy) == SelectSeq(tbl, LAMBDA d : Selected(d) /\ d.yy = yy)

\* '20' || TANSAD_YY
Period(yy) == 2000 + yy

RatePct_per_mille(count, total) == RoundHalfAway(count * 1000 * 100, total)

\* ROUND(count * 100.0 / COUNT(*), 2), in hundredths
RatePct(count, total) == RoundHalfAway(count * 100 * 100, total)

IsUndervalued_any_declared(d, threshold) ==
    d.assd_ut * 10 > d.dcld_ut * threshold

\* CASE WHEN ASSD_UT_USD_VAL > DCLD_UT_USD_VAL * threshold AND DCLD_UT_USD_VAL > 0
IsUndervalued(d, threshold) ==
    d.assd_ut * 10 > d.dcld_ut * threshold /\ d.dcld_ut > 0

UndervalCount(g, threshold) ==
    SumSeq([i \in DOMAIN g |-> IF IsUndervalued(g[i], threshold) THEN 1 ELSE 0])

EstimatedLoss(g, threshold) ==
    SumSeq([i \in DOMAIN g |->
              IF IsUndervalued(g[i], threshold)
              THEN g[i].assd_invc - g[i].dcld_invc ELSE 0])

calc_undervaluation_stats(tbl, threshold) ==
    LET ys == PeriodsDesc(Years(tbl))
    IN  [i \in DOMAIN ys |->
            LET g == GroupRows(tbl, ys[i])
            IN  [period |-> Period(ys[i]),
                 total_count |-> Len(g),
                 underval_count |-> UndervalCount(g, threshold),
                 underval_rate |-> RatePct(UndervalCount(g, threshold), Len(g)),
                 estimated_loss_usd |-> EstimatedLoss(g, threshold)]]

\* CASE WHEN DCLD_HS_CD != ASSD_HS_CD
IsMisclassified(d) == d.dcld_hs # d.assd_hs

MisclassCount(g) ==
    SumSeq([i \in DOMAIN g |-> IF IsMisclassified(g[i]) THEN 1 ELSE 0])

calc_hs_misclassification_rate(tbl) ==
    LET ys == PeriodsDesc(Years(tbl))
    IN  [i \in DOMAIN ys |->
            LET g == GroupRows(tbl, ys[i])
            IN  [period |-> Period(ys[i]),
                 total_count |-> Len(g),
                 misclass_count |-> MisclassCount(g),
                 misclass_rate |-> RatePct(MisclassCount(g), Len(g))]]

CalcUndervaluationStats ==
    /\ Ready("calc_undervaluation_stats")
    /\ Return("calc_undervaluation_stats",
              calc_undervaluation_stats(args.rows, args.threshold))

CalcHsMisclassificationRate ==
    /\ Ready("calc_hs_misclassification_rate")
    /\ Return("calc_hs_misclassification_rate",
              calc_hs_misclassification_rate(args))


\* ------------------------------- analyze_customs_revenue.fetch_yearly_data
\* the rows of the yearly statement, ORDER BY TANSAD_YY DESC
yearly_rows(tbl) ==
    LET ps == PeriodsDesc(DOMAIN tbl)
    IN  [i \in DOMAIN ps |->
            [YEAR |-> ps[i],
             ITEM_COUNT |-> tbl[ps[i]].declaration_count,
             TOTAL_TAX |-> tbl[ps[i]].total_tax]]

\* (column.pct_change(-1) * 100).round(1), in tenths: the change against the
\* row after, not-a-number in the last row
PctChange(column, i) ==
    IF i = Len(column) THEN NaN ELSE GrowthPct(column[i], Num(column[i + 1]))

fetch_yearly_data(tbl) ==
    LET df == yearly_rows(tbl)
        tax == [i \in DOMAIN df |-> df[i].TOTAL_TAX]
    IN  [i \in DOMAIN df |->
            [YEAR |-> df[i].YEAR,
             ITEM_COUNT |-> df[i].ITEM_COUNT,
             TOTAL_TAX |-> df[i].TOTAL_TAX,
             GROWTH_RATE |-> PctChange(tax, i)]]

FetchYearlyData ==
    /\ Ready("fetch_yearly_data")
    /\ Return("fetch_yearly_data", fetch_yearly_data(args))


\* ------------------------------------------------------------ script runs
\* One run of a script's main.  op is the script, args the steps its main
\* takes inside the try block (in program order), result the run so far: the
\* log of what the run did to the database connection and to the file
\* system, the index of the next step, and whether an exception is
\* propagating.  pc is the block of main the run is in.
Scripts ==
    {"detect_anomalies", "analyze_customs_revenue", "generate_reports",
     "create_styled_reports"}

Query(what) == [kind |-> "query", what |-> what]
Transform(what) == [kind |-> "transform", what |-> what]
Save(path) == [kind |-> "save", what |-> path]
Load(path) == [kind |-> "load", what |-> path]
Import(what) == [kind |-> "import", what |-> what]

\* the --output argument: the default or a path given on the command line
OutputArgs(script) ==
    IF script = "detect_anomalies" THEN {"customs_anomaly_report.xlsx", "out.xlsx"}
    ELSE IF script = "analyze_customs_revenue"
    THEN {"customs_revenue_analysis.xlsx", "out.xlsx"}
    ELSE {"-"}

RevenuePath == "revenue_path"
AnomalyPath == "anomaly_path"

detect_anomalies_main(output) ==
    <<Query("detect_undervaluation"), Query("detect_price_variance"),
      Query("detect_hs_changes"), Query("calculate_risk_score"),
      Query("identify_high_risk_importers"),
      Transform("create_summary"), Save(output),
      Transform("print_alert_summary")>>

add_charts_twice(output) ==
    <<Import("openpyxl"), Load(output), Transform("add_chart"), Save(output),
      Save(output)>>

\* add_charts: load the workbook just written, add the charts, save it again
add_charts(output) ==
    <<Import("openpyxl"), Load(output), Transform("add_chart"), Save(output)>>

analyze_customs_revenue_main(output) ==
    <<Query("fetch_yearly_data"), Query("fetch_commodity_data"),
      Query("fetch_country_data"), Query("fetch_customs_office_data"),
      Query("fetch_monthly_data"),
      Transform("create_summary"), Save(output)>>
    \o add_charts(output)
    \o <<Transform("print_summary")>>

generate_reports_main ==
    <<Query("calc_revenue_by_period yearly"), Query("calc_revenue_by_period monthly"),
      Query("calc_yoy_growth"), Query("calc_pareto_analysis"),
      Query("calc_hhi_by_dimension hs2"), Query("calc_hhi_by_dimension country"),
      Query("calc_executive_summary"), Query("df_country"),
      Query("_create_executive_summary"), Transform("revenue sheets"),
      Save(RevenuePath),
      Query("calc_undervaluation_stats"), Query("calc_risk_score_by_hs_country"),
      Query("calc_hs_misclassification_rate"), Query("df_importers"),
      Transform("anomaly sheets"), Save(AnomalyPath)>>

create_styled_reports_main ==
    <<Query("df_yearly"), Query("df_commodity"), Query("df_country"),
      Query("df_monthly"), Transform("revenue sheets"), Save(RevenuePath),
      Query("df_underval"), Query("df_risk"), Query("df_importers"),
      Transform("anomaly sheets"), Save(AnomalyPath)>>

Program(script, output) ==
    IF script = "detect_anomalies" THEN detect_anomalies_main(output)
    ELSE IF script = "analyze_customs_revenue" THEN analyze_customs_revenue_main(output)
    ELSE IF script = "generate_reports" THEN generate_reports_main
    ELSE create_styled_reports_main

Event(ev, what, ok) == [ev |-> ev, what |-> what, ok |-> ok]

Running(log) == [log |-> log, next |-> 1, raised |-> FALSE]

Exited(log, code) == [log |-> log, exit_code |-> code]

ExitCode_always_zero(raised) == 0

\* the status of the process: sys.exit(1), or an exception that leaves main,
\* gives 1; returning from main gives 0
ExitCode(raised) == IF raised THEN 1 ELSE 0

AfterRaise_skip_close(script) ==
    IF script = "generate_reports" THEN "except" ELSE "exit"

\* where an exception raised inside the try block goes: generate_reports has
\* an except clause in front of finally
AfterRaise(script) == IF script = "generate_reports" THEN "except" ELSE "finally"


InTry(kind) ==
    /\ pc = "try"
    /\ result.next <= Len(args)
    /\ args[result.next].kind = kind

\* the current step returns
Succeed ==
    /\ result' = [result EXCEPT
                    !.log = Append(@, Event(args[result.next].kind,
                                            args[result.next].what, TRUE)),
                    !.next = @ + 1]
    /\ UNCHANGED <<op, args, pc>>

\* the current step raises
Fail ==
    /\ result' = [result EXCEPT
                    !.log = Append(@, Event(args[result.next].kind,
                                            args[result.next].what, FALSE)),
                    !.raised = TRUE]
    /\ pc' = AfterRaise(op)
    /\ UNCHANGED <<op, args>>

\* oracledb.connect(**DB_CONFIG): on failure connect_db and generate_reports
\* call sys.exit(1); create_styled_reports lets the exception leave main
Connect ==
    /\ pc = "main"
    /\ \/ /\ result' = [result EXCEPT !.log = Append(@, Event("connect", "db", TRUE))]
          /\ pc' = "try"
       \/ /\ result' = Exited(Append(result.log, Event("connect", "db", FALSE)),
                              IF op = "create_styled_reports" THEN ExitCode(TRUE) ELSE 1)
          /\ pc' = "exit"
    /\ UNCHANGED <<op, args>>

\* pd.read_sql, directly or inside a KPICalculator method
RunQuery == InTry("query") /\ (Succeed \/ Fail)

\* building summaries, sheets and charts, printing
RunTransform == InTry("transform") /\ (Succeed \/ Fail)

\* pd.ExcelWriter(output_path) / wb.save(output_path)
SaveWorkbook == InTry("save") /\ (Succeed \/ Fail)

\* load_workbook(output_path)
LoadWorkbook == InTry("load") /\ (Succeed \/ Fail)

\* add_charts: from openpyxl import ...; an ImportError is caught and the
\* rest of add_charts is skipped
ImportCharts ==
    /\ InTry("import")
    /\ \/ Succeed
       \/ /\ result' = [result EXCEPT
                          !.log = Append(@, Event("import", args[result.next].what, FALSE)),
                          !.next = @ + Len(add_charts("-"))]
          /\ UNCHANGED <<op, args, pc>>

\* the try block runs to its end
EndTry ==
    /\ pc = "try"
    /\ result.next > Len(args)
    /\ pc' = "finally"
    /\ UNCHANGED <<op, args, result>>

\* generate_reports: except Exception: traceback.print_exc(); sys.exit(1)
HandleException ==
    /\ pc = "except"
    /\ result' = [result EXCEPT !.log = Append(@, Event("traceback", "stderr", TRUE))]
    /\ pc' = "finally"
    /\ UNCHANGED <<op, args>>

\* finally: conn.close(); then main returns or the exception leaves it
CloseConnection ==
    /\ pc = "finally"
    /\ result' = Exited(Append(result.log, Event("close", "db", TRUE)),
                        ExitCode(result.raised))
    /\ pc' = "exit"
    /\ UNCHANGED <<op, args>>


\* ------------------------------------------------- the country queries
\* Rows of CLRI_TANSAD_ITM_D as the three country statements read them:
\* ORIG_CNTY_CD (NoCountry is the SQL null), ITM_INVC_USD_AMT, DEL_YN and
\* the two-digit TANSAD_YY.
NoCountry == "NULL"

Items ==
    [orig_cnty_cd : {"CN", "XX", NoCountry}, usd : {1, 3}, del_yn : {"N"}, yy : {23}]
    \cup [orig_cnty_cd : {"CN"}, usd : {1}, del_yn : {"Y"}, yy : {23}]
    \cup [orig_cnty_cd : {"CN"}, usd : {1}, del_yn : {"N"}, yy : {22}]

ItemTables == UNION {[1..n -> Items] : n \in 0..MaxItems}

\* WHERE DEL_YN = 'N' AND TANSAD_YY >= min_yy AND ORIG_CNTY_CD IS NOT NULL
CountrySelected(d, min_yy) ==
    d.del_yn = "N" /\ d.yy >= min_yy /\ d.orig_cnty_cd # NoCountry

RECURSIVE KeysInOrder(_)
KeysInOrder(K) ==
    IF K = {} THEN <<>>
    ELSE LET k == CHOOSE x \in K : TRUE IN <<k>> \o KeysInOrder(K \ {k})

\* GROUP BY ORIG_CNTY_CD over the selected rows:
\* category, COUNT(*) and SUM(ITM_INVC_USD_AMT)
CountryGroups(items, min_yy) ==
    LET sel == SelectSeq(items, LAMBDA d : CountrySelected(d, min_yy))
        keys == KeysInOrder({sel[i].orig_cnty_cd : i \in DOMAIN sel})
    IN  [k \in DOMAIN keys |->
            LET g == SelectSeq(sel, LAMBDA d : d.orig_cnty_cd = keys[k])
            IN  [category |-> keys[k],
                 item_count |-> Len(g),
                 value |-> SumSeq([i \in DOMAIN g |-> g[i].usd])]]

ValuesOf(rows) == [i \in DOMAIN rows |-> rows[i].value]

\* calc_hhi_by_dimension('country') from the item table
hhi_country(items) ==
    LET rows == CountryGroups(items, 23)
    IN  [rows |-> rows, kpi |-> calc_hhi_by_dimension("country", ValuesOf(rows))]

\* calc_pareto_analysis('country') from the item table, for one of the
\* orders in which ORDER BY value DESC can return the groups
pareto_country(rows) == [rows |-> rows, df |-> pareto_frame(rows)]

ValueDescOrders(rows) ==
    {Reorder(rows, p) : p \in {q \in Perms(rows) : IsValueDesc(Reorder(rows, q))}}

\* COUNTRY_CODE.map(COUNTRY_NAMES).fillna(other): the name of a listed
\* code, the fallback label for any other code and for a missing one
CountryName(code) == IF code = "CN" THEN "China" ELSE "Other"

\* fetch_country_data: the first 30 groups by value, named, with the share
\* of each in the total, in tenths of a percent
fetch_country_data(rows) ==
    LET df == FirstRows(rows, 30)
        total == SumSeq(ValuesOf(df))
    IN  [i \in DOMAIN df |->
            [COUNTRY_CODE |-> df[i].category,
             ITEM_COUNT |-> df[i].item_count,
             TOTAL_VALUE_USD |-> df[i].value,
             COUNTRY_NAME |-> CountryName(df[i].category),
             VALUE_SHARE |-> RoundHalfEven(df[i].value * 100 * 10, total)]]

CalcHhiCountry ==
    /\ Ready("calc_hhi_by_dimension country")
    /\ Return("calc_hhi_by_dimension country", hhi_country(args))

CalcParetoCountry ==
    /\ Ready("calc_pareto_analysis country")
    /\ \E rows \in ValueDescOrders(CountryGroups(args, 23)) :
          Return("calc_pareto_analysis country", pareto_country(rows))

FetchCountryData ==
    /\ Ready("fetch_country_data")
    /\ \E rows \in ValueDescOrders(CountryGroups(args, 0)) :
          Return("fetch_country_data", fetch_country_data(rows))


\* ------------------------- detect_anomalies: the undervaluation predicates
\* Unit values of the rows of CLRI_TANSAD_UT_PRC_M, and the --threshold
\* argument of the run; thresholds are in tenths (1.3 is 13).
UnitValues == [dcld_ut : {0, 10}, assd_ut : {13, 14, 16, 21}]

UnitValueTables == UNION {[1..n -> UnitValues] : n \in 0..MaxDecls}

ThresholdArgs ==
    {[given |-> FALSE, value |-> 0]} \cup [given : {TRUE}, value : {13, 15, 20}]

DetectInputs == [threshold : ThresholdArgs, rows : UnitValueTables]

\* parser.add_argument('--threshold', type=float, default=1.3)
ParseThreshold(arg) == IF arg.given THEN arg.value ELSE 13

\* detect_undervaluation: DCLD_UT_USD_VAL > 0
\*                        AND ASSD_UT_USD_VAL > DCLD_UT_USD_VAL * {threshold}
detect_undervaluation(d, threshold) ==
    d.dcld_ut > 0 /\ d.assd_ut * 10 > d.dcld_ut * threshold

\* calculate_risk_score: ASSD_UT_USD_VAL > DCLD_UT_USD_VAL * 1.5
\*                       AND DCLD_UT_USD_VAL > 0
risk_undervalued(d) == d.assd_ut * 10 > d.dcld_ut * 15 /\ d.dcld_ut > 0

\* identify_high_risk_importers: ASSD_UT_USD_VAL > DCLD_UT_USD_VAL * 1.3
\*                               AND DCLD_UT_USD_VAL > 0
importer_undervalued(d) == d.assd_ut * 10 > d.dcld_ut * 13 /\ d.dcld_ut > 0

\* main: which rows each of the three functions takes as undervalued
detect_anomalies(rows, arg) ==
    [detect_undervaluation |->
        [i \in DOMAIN rows |-> detect_undervaluation(rows[i], ParseThreshold(arg))],
     calculate_risk_score |-> [i \in DOMAIN rows |-> risk_undervalued(rows[i])],
     identify_high_risk_importers |->
        [i \in DOMAIN rows |-> importer_undervalued(rows[i])]]

DetectAnomalies ==
    /\ Ready("detect_anomalies")
    /\ Return("detect_anomalies", detect_anomalies(args.rows, args.threshold))


\* ------------------------------ KPICalculator.calc_risk_score_by_hs_country
\* The groups of the base statement before HAVING: COUNT(*), the two flag
\* counts and SUM(ASSD_INVC_USD_AMT) of one HS4 x country combination.
BonusGroups ==
    [total : {30, 100}, hs_changed : {0, 10}, undervalued : {0, 7},
     total_value : {10000000, 10000001, 100000000, 100000001}]

BonusTables == UNION {[1..n -> BonusGroups] : n \in 0..MaxGroups}

MinCounts == {20, 50}

BonusInputs == [min_count : MinCounts, rows : BonusTables]

VolumeBonus_inclusive(total_value) ==
    IF total_value >= 100000000 THEN 10
    ELSE IF total_value >= 10000000 THEN 5
    ELSE 1

\* CASE WHEN total_value > 100000000 THEN 10 WHEN total_value > 10000000
\* THEN 5 ELSE 1 END
VolumeBonus(total_value) ==
    IF total_value > 100000000 THEN 10
    ELSE IF total_value > 10000000 THEN 5
    ELSE 1

\* ROUND(count * 100.0 / total_count, 1), in tenths
RatePermille(count, total) == RoundHalfAway(count * 100 * 10, total)

\* ROUND(underval_count * 3.0 / total_count * 100
\*       + hs_change_count * 2.0 / total_count * 100 + bonus, 1), in tenths
BonusScore(g) ==
    RoundHalfAway(10 * (g.undervalued * 3 * 100 + g.hs_changed * 2 * 100
                        + VolumeBonus(g.total_value) * g.total),
                  g.total)

BonusRow(tbl, i) ==
    [key |-> i,
     total_count |-> tbl[i].total,
     underval_count |-> tbl[i].undervalued,
     underval_rate |-> RatePermille(tbl[i].undervalued, tbl[i].total),
     hs_change_count |-> tbl[i].hs_changed,
     hs_change_rate |-> RatePermille(tbl[i].hs_changed, tbl[i].total),
     total_value |-> tbl[i].total_value,
     risk_score |-> BonusScore(tbl[i])]

\* HAVING COUNT(*) >= min_count, then WHERE underval_count > 0 OR
\* hs_change_count > 0
BonusKept(tbl, min_count) ==
    SelectSeq([i \in DOMAIN tbl |-> BonusRow(tbl, i)],
              LAMBDA r : /\ r.total_count >= min_count
                         /\ (r.underval_count > 0 \/ r.hs_change_count > 0))

\* ORDER BY risk_score DESC FETCH FIRST 100 ROWS ONLY: the results the
\* statement can return
calc_risk_score_by_hs_country(tbl, min_count) ==
    LET kept == BonusKept(tbl, min_count)
    IN  {FirstRows(Reorder(kept, p), 100) :
            p \in {q \in Perms(kept) :
                     \A i, j \in DOMAIN kept :
                        i < j => kept[q[i]].risk_score >= kept[q[j]].risk_score}}

CalcRiskScoreByHsCountry ==
    /\ Ready("calc_risk_score_by_hs_country")
    /\ \E df \in calc_risk_score_by_hs_country(args.rows, args.min_count) :
          Return("calc_risk_score_by_hs_country", df)


\* ------------------------------------------------------- KPI_DEFINITIONS
KPICategory ==
    {"Trade Facilitation", "Revenue Collection", "Risk Management", "Organizational"}

KPIDefinition_swapped(code, category, benchmark, target, direction) ==
    [code |-> code, category |-> category, benchmark |-> target,
     target |-> benchmark, direction |-> direction]

\* the fields of a KPIDefinition that the status and the scorecard read
KPIDefinition(code, category, benchmark, target, direction) ==
    [code |-> code, category |-> category, benchmark |-> benchmark,
     target |-> target, direction |-> direction]

KpiCodes ==
    {"TF001", "TF002", "TF003", "TF004", "RC001", "RC002", "RC003", "RC004",
     "RM001", "RM002", "RM003", "RM004", "RM005", "OD001", "OD002", "OD003"}

KPI_DEFINITIONS ==
    [k \in KpiCodes |->
        CASE k = "TF001" -> KPIDefinition("TF001", "Trade Facilitation", 24, 12, "lower")
          [] k = "TF002" -> KPIDefinition("TF002", "Trade Facilitation", 30, 50, "higher")
          [] k = "TF003" -> KPIDefinition("TF003", "Trade Facilitation", 70, 85, "higher")
          [] k = "TF004" -> KPIDefinition("TF004", "Trade Facilitation", 95, 99, "higher")
          [] k = "RC001" -> KPIDefinition("RC001", "Revenue Collection", 95, 99, "higher")
          [] k = "RC002" -> KPIDefinition("RC002", "Revenue Collection", 90, 95, "higher")
          [] k = "RC003" -> KPIDefinition("RC003", "Revenue Collection", 5, 10, "higher")
          [] k = "RC004" -> KPIDefinition("RC004", "Revenue Collection", 3, 5, "higher")
          [] k = "RM001" -> KPIDefinition("RM001", "Risk Management", 15, 10, "lower")
          [] k = "RM002" -> KPIDefinition("RM002", "Risk Management", 20, 30, "higher")
          [] k = "RM003" -> KPIDefinition("RM003", "Risk Management", 85, 95, "higher")
          [] k = "RM004" -> KPIDefinition("RM004", "Risk Management", 30, 50, "higher")
          [] k = "RM005" -> KPIDefinition("RM005", "Risk Management", 5, 2, "lower")
          [] k = "OD001" -> KPIDefinition("OD001", "Organizational", 1500, 1000, "lower")
          [] k = "OD002" -> KPIDefinition("OD002", "Organizational", 15, 10, "lower")
          [] k = "OD003" -> KPIDefinition("OD003", "Organizational", 3, 4, "higher")]


\* A process that uses the KPI definitions.  In this specification args is
\* the module state: the dict KPI_DEFINITIONS (from its keys to the
\* KPIDefinition objects it refers to, each named by the key it was created
\* under) and the fields of those objects.  result is the value the last
\* operation returned to its caller, op that operation, pc the number of
\* operations so far.
ModuleState == [dict |-> [k \in KpiCodes |-> k], objects |-> KPI_DEFINITIONS]

NoValue == [kind |-> "None", ref |-> "", entries |-> <<>>]
ObjectRef(id) == [kind |-> "KPIDefinition", ref |-> id, entries |-> <<>>]
GlobalDict == [kind |-> "KPI_DEFINITIONS", ref |-> "", entries |-> <<>>]
NewDict(entries) == [kind |-> "dict", ref |-> "", entries |-> entries]
NewData(kind, entries) == [kind |-> kind, ref |-> "", entries |-> entries]

Restrict(f, S) == [k \in DOMAIN f \cap S |-> f[k]]

\* the codes the caller looks up and edits
CallerCodes == {"TF001", "RC004", "ZZ999"}

ScorecardCodes == {"RC004", "OD002", "OD001", "RM004", "RM005"}

KpiOp(name) ==
    /\ pc < MaxOps
    /\ op' = name
    /\ pc' = pc + 1

\* return KPI_DEFINITIONS.get(kpi_code)
GetDefinition ==
    /\ KpiOp("get_definition")
    /\ \E kpi_code \in CallerCodes :
          result' = IF kpi_code \in DOMAIN args.dict
                    THEN ObjectRef(args.dict[kpi_code]) ELSE NoValue
    /\ UNCHANGED args

\* return KPI_DEFINITIONS
get_all_definitions == GlobalDict

GetAllDefinitions ==
    /\ KpiOp("get_all_definitions")
    /\ result' = get_all_definitions
    /\ UNCHANGED args

\* return {k: v for k, v in KPI_DEFINITIONS.items() if v.category == category}
GetDefinitionsByCategory ==
    /\ KpiOp("get_definitions_by_category")
    /\ \E category \in KPICategory :
          result' = NewDict(Restrict(args.dict,
                        {k \in DOMAIN args.dict :
                            args.objects[args.dict[k]].category = category}))
    /\ UNCHANGED args

\* calc_kpi_scorecard: defn = KPI_DEFINITIONS[code] for five codes; the
\* rows of the frame hold copies of the fields
CalcKpiScorecard ==
    /\ KpiOp("calc_kpi_scorecard")
    /\ result' = IF ScorecardCodes \subseteq DOMAIN args.dict
                 THEN NewData("DataFrame",
                              [k \in ScorecardCodes |-> args.objects[args.dict[k]]])
                 ELSE NewData("KeyError", <<>>)
    /\ UNCHANGED args

\* calc_executive_summary and the other calc_ methods: they do not read the
\* definitions and return new values
CalcExecutiveSummary ==
    /\ KpiOp("calc_executive_summary")
    /\ result' = NewData("summary", <<>>)
    /\ UNCHANGED args

\* the objects the caller reaches through the value it was returned
Reachable ==
    IF result.kind = "KPIDefinition" THEN {result.ref}
    ELSE IF result.kind = "KPI_DEFINITIONS"
    THEN {args.dict[k] : k \in DOMAIN args.dict \cap CallerCodes}
    ELSE IF result.kind = "dict"
    THEN {result.entries[k] : k \in DOMAIN result.entries \cap CallerCodes}
    ELSE {}

Changed(field, old) ==
    IF field = "code" THEN "X"
    ELSE IF field = "category" THEN "Other"
    ELSE IF field = "direction" THEN (IF old = "higher" THEN "lower" ELSE "higher")
    ELSE old + 1

\* the caller assigns to a field of a KPIDefinition it was returned
CallerSetField ==
    /\ KpiOp("caller: defn.field = value")
    /\ \E id \in Reachable :
          \E field \in {"code", "category", "benchmark", "target", "direction"} :
             args' = [args EXCEPT !.objects[id][field] = Changed(field, @)]
    /\ UNCHANGED result

\* the caller deletes a key of a dict it was returned
CallerDelItem ==
    /\ KpiOp("caller: del d[key]")
    /\ \/ /\ result.kind = "KPI_DEFINITIONS"
          /\ \E k \in DOMAIN args.dict \cap CallerCodes :
                args' = [args EXCEPT !.dict = Restrict(@, DOMAIN @ \ {k})]
          /\ UNCHANGED result
       \/ /\ result.kind = "dict"
          /\ \E k \in DOMAIN result.entries \cap CallerCodes :
                result' = [result EXCEPT !.entries = Restrict(@, DOMAIN @ \ {k})]
          /\ UNCHANGED args

\* the caller edits a row of the scorecard frame it was returned
CallerEditFrame ==
    /\ KpiOp("caller: df.loc[code, field] = value")
    /\ result.kind = "DataFrame"
    /\ \E k \in DOMAIN result.entries \cap CallerCodes :
          result' = [result EXCEPT !.entries[k].target = @ + 1]
    /\ UNCHANGED args


\* the two yearly growth call sites on the same yearly rows
yearly_growth(tbl) ==
    [fetch_yearly_data |-> fetch_yearly_data(tbl),
     calc_yoy_growth |-> calc_yoy_growth(tbl)]

YearlyGrowth ==
    /\ Ready("yearly growth")
    /\ Return("yearly growth", yearly_growth(args))


\* ------------------------------------------------------ add_scorecard_table
\* A scorecard item as _create_executive_summary builds it from a row of
\* calc_kpi_scorecard: actual in tenths (a one-decimal growth, cv or rate),
\* target a whole number, 0 standing for a missing target.
GaugeActuals == {-25, -5, -3, 0, 25, 50, 75}
GaugeTargets == {-5, 0, 5, 10}
ScorecardItems == [actual : GaugeActuals, target : GaugeTargets]

ScorecardData ==
    {<<>>} \cup UNION {[1..n -> ScorecardItems] : n \in 1..MaxItemRows}

GaugeWidth == 10

\* int(x) of the ratio n/d, d > 0: truncation toward zero
IntOf(n, d) == IF n >= 0 THEN n \div d ELSE -((-n) \div d)

\* c * n for a str c: the empty string for n <= 0
Times(c, n) == [i \in 1..n |-> c]

\* int(min(progress, 1) * 10) with progress = actual / target if target > 0
\* else 0; actual is in tenths
Filled(actual, target) ==
    IF target > 0
    THEN IF actual >= 10 * target THEN GaugeWidth ELSE IntOf(actual, target)
    ELSE 0

Gauge(actual, target) ==
    Times("filled", Filled(actual, target))
        \o Times("empty", GaugeWidth - Filled(actual, target))

\* the cells of the data rows the table writes (the name and status cells
\* copy the item's fields and are left out)
add_scorecard_table(data) ==
    [i \in DOMAIN data |->
        [actual |-> data[i].actual,
         target |-> data[i].target,
         gauge |-> Gauge(data[i].actual, data[i].target)]]

AddScorecardTable ==
    /\ Ready("add_scorecard_table")
    /\ Return("add_scorecard_table", add_scorecard_table(args))


\* ------------------------------------------- identify_high_risk_importers
\* One importer (GROUP BY IMPPN_TIN) by its counts.
ImporterTotals == {10, 64, 100}
ImporterFlags == {0, 5, 50}

ImporterGroups ==
    {g \in [total : ImporterTotals, hs_changed : ImporterFlags,
            undervalued : ImporterFlags] :
        g.hs_changed <= g.total /\ g.undervalued <= g.total}

ImporterTables == UNION {[1..n -> ImporterGroups] : n \in 0..MaxGroups}

ImporterMinCount == 20
ImporterMinFlagged == 5
ImporterFetchFirst == 50

\* HAVING COUNT(*) >= 20 AND (SUM(undervalued) >= 5 OR SUM(hs changed) >= 5)
ImporterHaving(g) ==
    /\ g.total >= ImporterMinCount
    /\ (g.undervalued >= ImporterMinFlagged \/ g.hs_changed >= ImporterMinFlagged)

\* the SELECT list for the importer with key i; TIN is the key, the name
\* and TOTAL_VALUE_USD columns are left out
ImporterRow(tbl, i) ==
    [TIN |-> i,
     TOTAL_CNT |-> tbl[i].total,
     UNDERVALUE_CNT |-> tbl[i].undervalued,
     HS_CHANGE_CNT |-> tbl[i].hs_changed,
     UNDERVALUE_RATE |-> UndervalueRate(tbl[i])]

ImporterKept(tbl) ==
    SelectSeq([i \in DOMAIN tbl |-> ImporterRow(tbl, i)],
              LAMBDA r : ImporterHaving(tbl[r.TIN]))

\* ORDER BY UNDERVALUE_CNT DESC: the order of equal counts is the database's
IsUndervalueDesc(rows) ==
    \A i, j \in DOMAIN rows : i < j => rows[i].UNDERVALUE_CNT >= rows[j].UNDERVALUE_CNT

ImporterResults(kept) ==
    {FirstRows(Reorder(kept, p), ImporterFetchFirst) :
        p \in {q \in Perms(kept) : IsUndervalueDesc(Reorder(kept, q))}}

\* ((UNDERVALUE_CNT * 3 + HS_CHANGE_CNT * 2) / TOTAL_CNT * 100).round(1),
\* in tenths: the pandas round, ties to even
ImporterScore(undervalued, hs_changed, total) ==
    RoundHalfEven(10 * ((undervalued * UndervalWeight + hs_changed * HsChangeWeight) * 100),
                  total)

\* the frame identify_high_risk_importers returns for the rows of its query
identify_high_risk_importers(rows) ==
    [i \in DOMAIN rows |->
        [TIN |-> rows[i].TIN,
         TOTAL_CNT |-> rows[i].TOTAL_CNT,
         UNDERVALUE_CNT |-> rows[i].UNDERVALUE_CNT,
         HS_CHANGE_CNT |-> rows[i].HS_CHANGE_CNT,
         UNDERVALUE_RATE |-> rows[i].UNDERVALUE_RATE,
         RISK_SCORE |-> ImporterScore(rows[i].UNDERVALUE_CNT, rows[i].HS_CHANGE_CNT,
                                      rows[i].TOTAL_CNT)]]

IdentifyHighRiskImporters ==
    /\ Ready("identify_high_risk_importers")
    /\ \E rows \in ImporterResults(ImporterKept(args)) :
          Return("identify_high_risk_importers", identify_high_risk_importers(rows))


\* --------------------------------------------- the status of a definition
\* The actual values next to a benchmark or a target of some definition.
StatusActuals ==
    UNION {{KPI_DEFINITIONS[k].benchmark + e, KPI_DEFINITIONS[k].target + e} :
              k \in KpiCodes, e \in -StatusMargin..StatusMargin}

StatusInputs == [code : KpiCodes, actual : StatusActuals]

\* defn = KPI_DEFINITIONS[code];
\* self._get_status(actual, defn.benchmark, defn.target, defn.direction)
definition_status(code, actual) ==
    LET defn == KPI_DEFINITIONS[code]
    IN  get_status(actual, defn.benchmark, defn.target, defn.direction)

DefinitionStatus ==
    /\ Ready("definition status")
    /\ Return("definition status", definition_status(args.code, args.actual))

\* ------------------------------------------------------------------ system
Init ==
    \/ \E a \in GetStatusInputs : Pending("_get_status", a)
    \/ \E a \in RiskTables : Pending("calculate_risk_score", a)
    \/ \E a \in RiskTables : Pending("create_anomaly_report", a)
    \/ \E a \in HhiInputs : Pending("calc_hhi_by_dimension", a)
    \/ \E a \in ParetoInputs : Pending("calc_pareto_analysis", a)
    \/ \E a \in RevenueTables : Pending("calc_yoy_growth", a)
    \/ \E a \in RevenueTables : Pending("calc_mom_growth", a)
    \/ \E a \in VolSeries : Pending("calc_volatility", a)
    \/ \E a \in RevenueTables : Pending("fetch_yearly_data", a)
    \/ \E a \in UndervalInputs : Pending("calc_undervaluation_stats", a)
    \/ \E a \in MisclassTables : Pending("calc_hs_misclassification_rate", a)
    \/ \E a \in ItemTables : Pending("calc_hhi_by_dimension country", a)
    \/ \E a \in ItemTables : Pending("calc_pareto_analysis country", a)
    \/ \E a \in ItemTables : Pending("fetch_country_data", a)
    \/ \E a \in DetectInputs : Pending("detect_anomalies", a)
    \/ \E a \in BonusInputs : Pending("calc_risk_score_by_hs_country", a)
    \/ \E a \in RevenueTables : Pending("yearly growth", a)
    \/ \E a \in ScorecardData : Pending("add_scorecard_table", a)
    \/ \E a \in ImporterTables : Pending("identify_high_risk_importers", a)
    \/ \E a \in StatusInputs : Pending("definition status", a)

Next ==
    \/ GetStatus
    \/ CalculateRiskScore
    \/ CreateAnomalyReport
    \/ CalcHhiByDimension
    \/ CalcParetoAnalysis
    \/ CalcYoyGrowth
    \/ CalcMomGrowth
    \/ CalcVolatility
    \/ FetchYearlyData
    \/ CalcUndervaluationStats
    \/ CalcHsMisclassificationRate
    \/ CalcHhiCountry
    \/ CalcParetoCountry
    \/ FetchCountryData
    \/ DetectAnomalies
    \/ CalcRiskScoreByHsCountry
    \/ YearlyGrowth
    \/ AddScorecardTable
    \/ IdentifyHighRiskImporters
    \/ DefinitionStatus

Spec == Init /\ [][Next]_vars

\* a run of one of the scripts, from the start of its main
InitRun ==
    \E script \in Scripts :
      \E output \in OutputArgs(script) :
        /\ op = script
        /\ args = Program(script, output)
        /\ result = Running(<<>>)
        /\ pc = "main"

NextRun ==
    \/ Connect
    \/ RunQuery
    \/ RunTransform
    \/ SaveWorkbook
    \/ LoadWorkbook
    \/ ImportCharts
    \/ EndTry
    \/ HandleException
    \/ CloseConnection

SpecRun == InitRun /\ [][NextRun]_vars

\* a process after import kpi_calculator
InitKpi ==
    /\ op = "import kpi_calculator"
    /\ args = ModuleState
    /\ result = NoValue
    /\ pc = 0

NextKpi ==
    \/ GetDefinition
    \/ GetAllDefinitions
    \/ GetDefinitionsByCategory
    \/ CalcKpiScorecard
    \/ CalcExecutiveSummary
    \/ CallerSetField
    \/ CallerDelItem
    \/ CallerEditFrame

SpecKpi == InitKpi /\ [][NextKpi]_vars

\* C1: _get_status is a total three-way classifier: with direction higher it
\* returns Excellent iff actual >= target, otherwise Good iff actual >=
\* benchmark, otherwise Needs Improvement; with direction lower the same with
\* <=; nothing else is returned, and (higher, benchmark 30, target 50) maps
\* 55, 35, 10 to Excellent, Good, Needs Improvement.
C1_StatusClassifier ==
    Done("_get_status") =>
        LET a == args.actual
            b == args.benchmark
            t == args.target
            up == args.direction = "higher"
            atTarget == IF up THEN a >= t ELSE a <= t
            atBench == IF up THEN a >= b ELSE a <= b
        IN  /\ result \in {"Excellent", "Good", "Needs Improvement"}
            /\ (result = "Excellent") <=> atTarget
            /\ (result = "Good") <=> (~atTarget /\ atBench)
            /\ (result = "Needs Improvement") <=> (~atTarget /\ ~atBench)
            /\ (up /\ b = 30 /\ t = 50 /\ a = 55) => result = "Excellent"
            /\ (up /\ b = 30 /\ t = 50 /\ a = 35) => result = "Good"
            /\ (up /\ b = 30 /\ t = 50 /\ a = 10) => result = "Needs Improvement"

C1_Witness ==
    /\ Done("_get_status")
    /\ args = [actual |-> 35, benchmark |-> 30, target |-> 50, direction |-> "higher"]
    /\ result = "Good"

\* the rows of the risk frame the finished call returned
RiskRowsOut ==
    IF Done("calculate_risk_score") THEN result
    ELSE IF Done("create_anomaly_report") THEN result.df_risk
    ELSE <<>>

\* C2: in the variant without volume bonus every returned HS4 x country group
\* has RISK_SCORE = (underval_count/total_count*100)*3 +
\* (hs_change_count/total_count*100)*2 rounded to 1 decimal, computed from the
\* counts of its own group; counts 100, 20, 10 score 80.0.
C2_RiskScoreFormula ==
    /\ \A i \in DOMAIN RiskRowsOut :
        LET r == RiskRowsOut[i]
            g == args[r.key]
        IN  /\ r.TOTAL_CNT = g.total
            /\ r.UNDERVALUE_CNT = g.undervalued
            /\ r.HS_CHANGE_CNT = g.hs_changed
            /\ IsNearest(r.RISK_SCORE,
                         10 * (g.undervalued * 100 * 3 + g.hs_changed * 100 * 2),
                         g.total)
    /\ RiskScoreExpr(20, 10, 100) = 800

C2_Witness ==
    /\ Done("calculate_risk_score")
    /\ \E i \in DOMAIN result :
        /\ result[i].TOTAL_CNT = 300
        /\ result[i].UNDERVALUE_CNT = 20
        /\ result[i].HS_CHANGE_CNT = 50
        /\ result[i].RISK_SCORE = 533

\* C3: RISK_GRADE is NORMAL iff score < 30, LOW iff 30 <= score < 50, MEDIUM
\* iff 50 <= score < 80, HIGH iff score >= 80, so that the scores 30, 50 and 80
\* are graded LOW, MEDIUM and HIGH.
C3_GradeBands ==
    Done("calculate_risk_score") =>
        \A i \in DOMAIN result :
            LET s == result[i].RISK_SCORE
                grade == result[i].RISK_GRADE
            IN  /\ (grade = "NORMAL") <=> s < 300
                /\ (grade = "LOW") <=> (300 <= s /\ s < 500)
                /\ (grade = "MEDIUM") <=> (500 <= s /\ s < 800)
                /\ (grade = "HIGH") <=> s >= 800

\* the call of calc_hhi_by_dimension returned a result for a total > 0
HhiReturned == Done("calc_hhi_by_dimension") /\ result.raised = "none"

\* the number of rows that precede row i in the order largest value first
RankIn(values, i) ==
    Cardinality({j \in DOMAIN values :
                    values[j] > values[i] \/ (values[j] = values[i] /\ j < i)})

\* the sum of the n highest values
SumOfHighest(values, n) ==
    SumSeq([i \in DOMAIN values |-> IF RankIn(values, i) < n THEN values[i] ELSE 0])

\* C4: for a grand total > 0 the reported hhi is sum((value/total)^2) * 10000
\* rounded to the nearest integer, the label is Low (Competitive) below 1000,
\* Moderate from 1000 to below 1800, High (Concentrated) otherwise, four equal
\* categories give 2500 and High (Concentrated), top_5_share is the share in
\* percent (1 decimal) of the five highest values, and total_categories is
\* the number of rows.
C4_HhiResult ==
    /\ Done("calc_hhi_by_dimension") /\ args.dimension \in Dimensions
            /\ SumSeq(args.rows) > 0
        => result.raised = "none"
    /\ HhiReturned =>
        LET v == args.rows
            t == SumSeq(v)
            sq == SumSeq([i \in DOMAIN v |-> v[i] * v[i]])
        IN  /\ t > 0
            /\ IsNearest(result.hhi, 10000 * sq, t * t)
            /\ (result.concentration_level = "Low (Competitive)")
                    <=> 10000 * sq < 1000 * t * t
            /\ (result.concentration_level = "Moderate")
                    <=> (1000 * t * t <= 10000 * sq /\ 10000 * sq < 1800 * t * t)
            /\ (result.concentration_level = "High (Concentrated)")
                    <=> 1800 * t * t <= 10000 * sq
            /\ (Len(v) = 4 /\ \A i \in DOMAIN v : v[i] = v[1])
                    => (result.hhi = 2500
                        /\ result.concentration_level = "High (Concentrated)")
            /\ IsNearest(result.top_5_share, 1000 * SumOfHighest(v, 5), t)
            /\ result.total_categories = Len(v)

C4_Witness ==
    /\ HhiReturned
    /\ Len(args.rows) = 11
    /\ result.concentration_level = "Low (Competitive)"
    /\ result.hhi = 909
    /\ result.top_5_share = 455

\* the shares of the local frame sum to 1: they have one denominator, the
\* sum of their numerators
SharesSumToOne ==
    /\ \A i \in DOMAIN result.df :
        /\ result.df[i].share.n = args.rows[i]
        /\ result.df[i].share.d = SumSeq(args.rows)
    /\ SumSeq([i \in DOMAIN result.df |-> result.df[i].share.n]) = result.df[1].share.d

HhiInRange ==
    /\ result.hhi_exact.n <= 10000 * result.hhi_exact.d
    /\ result.hhi <= 10000

ParetoOut ==
    IF Done("calc_pareto_analysis") /\ result.raised = "none" THEN result.df ELSE <<>>

ParetoTotal == SumSeq([i \in DOMAIN ParetoOut |-> ParetoOut[i].value])

\* C6: every row has share_pct = value/total*100 rounded to 2 decimals,
\* cumulative_pct = the running sum of the rounded share_pct values, rank =
\* its 1-based position, and zone A when cumulative_pct <= 80, B when 80 <
\* cumulative_pct <= 95, C otherwise; exactly 80 is in A, exactly 95 in B.
C6_ParetoRows ==
    \A i \in DOMAIN ParetoOut :
        LET r == ParetoOut[i]
            t == ParetoTotal
            c == r.cumulative_pct
        IN  /\ r.rank = i
            /\ t > 0 => IsNum(r.share_pct) /\ IsNearest(r.share_pct.v, r.value * 10000, t)
            /\ t < 0 => IsNum(r.share_pct) /\ IsNearest(r.share_pct.v, -r.value * 10000, -t)
            /\ t = 0 => ~IsNum(r.share_pct)
            /\ t # 0 => /\ IsNum(c)
                        /\ c.v = SumSeq([j \in 1..i |-> ParetoOut[j].share_pct.v])
            /\ IsNum(c) =>
                /\ (r.pareto_zone = "A (Top 80%)") <=> c.v <= 8000
                /\ (r.pareto_zone = "B (80-95%)") <=> (8000 < c.v /\ c.v <= 9500)
                /\ (r.pareto_zone = "C (Bottom 5%)") <=> 9500 < c.v
            /\ r.pareto_zone \in {"A (Top 80%)", "B (80-95%)", "C (Bottom 5%)"}

C6_Witness ==
    /\ Len(ParetoOut) = 3
    /\ ParetoOut[1].cumulative_pct = Num(8000) /\ ParetoOut[1].pareto_zone = "A (Top 80%)"
    /\ ParetoOut[2].share_pct = Num(2000)
    /\ ParetoOut[3].pareto_zone = "C (Bottom 5%)"

ZoneOrder(z) == IF z = "A (Top 80%)" THEN 1 ELSE IF z = "B (80-95%)" THEN 2 ELSE 3

ZonesNeverRegress ==
    \A i, j \in DOMAIN ParetoOut :
        i < j => ZoneOrder(ParetoOut[i].pareto_zone) <= ZoneOrder(ParetoOut[j].pareto_zone)

\* x < y for floats: false when either is not-a-number
FLess(x, y) ==
    IF IsNaN(x) \/ IsNaN(y) THEN FALSE
    ELSE IF IsNum(x) /\ IsNum(y) THEN x.v < y.v
    ELSE IF IsNum(x) THEN y.v > 0
    ELSE IF IsNum(y) THEN x.v < 0
    ELSE x.v < y.v

\* no row's cumulative_pct is lower than that of a row ranked before it
CumulativeNonDecreasing ==
    \A i, j \in DOMAIN ParetoOut :
        i < j => ~FLess(ParetoOut[j].cumulative_pct, ParetoOut[i].cumulative_pct)

\* C7 (as claimed): for any category rows cumulative_pct is non-decreasing
\* along the rank order and the zones never regress (A rows, then B, then C).
C7_MonotoneAnyRows == CumulativeNonDecreasing /\ ZonesNeverRegress

\* C7 (amended): the zones never regress for any category rows, and
\* cumulative_pct is non-decreasing along the rank order when no category
\* value is negative.
C7_MonotoneAmended ==
    /\ ZonesNeverRegress
    /\ (\A i \in DOMAIN ParetoOut : ParetoOut[i].value >= 0) => CumulativeNonDecreasing

C7_Witness ==
    /\ Len(ParetoOut) = 3
    /\ ParetoOut[1].pareto_zone = "A (Top 80%)"
    /\ ParetoOut[2].pareto_zone = "B (80-95%)"
    /\ ParetoOut[3].pareto_zone = "C (Bottom 5%)"

\* C8: whatever the order of the category rows in the table, the output row
\* with rank i holds the i-th largest value: the output is a reordering of
\* the table's rows whose values are non-increasing in rank.
C8_RankedDescending ==
    Done("calc_pareto_analysis") /\ result.raised = "none" =>
        /\ Len(ParetoOut) = Len(args.rows)
        /\ \A c \in DOMAIN args.rows :
            Cardinality({i \in DOMAIN ParetoOut : ParetoOut[i].category = c}) = 1
        /\ \A i \in DOMAIN ParetoOut :
            /\ ParetoOut[i].value = args.rows[ParetoOut[i].category]
            /\ Cardinality({c \in DOMAIN args.rows : args.rows[c] > ParetoOut[i].value}) < i
            /\ Cardinality({c \in DOMAIN args.rows : args.rows[c] >= ParetoOut[i].value}) >= i

C8_Witness ==
    /\ Done("calc_pareto_analysis") /\ result.raised = "none"
    /\ args.rows = <<1, 15, 4>>
    /\ ParetoOut[1].value = 15 /\ ParetoOut[2].value = 4 /\ ParetoOut[3].value = 1

\* the growth column of a row of the finished growth call
GrowthOf(r) == IF op = "calc_yoy_growth" THEN r.yoy_growth_pct ELSE r.mom_growth_pct

GrowthDone == Done("calc_yoy_growth") \/ Done("calc_mom_growth")

\* the period of the table that chronologically precedes period p
PrecedingPeriod(p) == MaxIn({q \in DOMAIN args : q < p})

\* C9: whatever the order of the period rows, every output row's growth is
\* (total - preceding total) / preceding total * 100 rounded to 1 decimal,
\* the earliest period is the only period left out of the output, every other
\* period appears in it, and the totals 100, 110, 99 in ascending period order
\* give exactly the growth values +10.0 and -10.0.
C9_GrowthSeries ==
    GrowthDone =>
        /\ \A i \in DOMAIN result :
            LET p == result[i].period
                cur == args[p].total_tax
                prev == args[PrecedingPeriod(p)].total_tax
            IN  /\ p \in DOMAIN args /\ p # MinIn(DOMAIN args)
                /\ result[i].total_tax = cur
                /\ prev > 0 => /\ IsNum(GrowthOf(result[i]))
                               /\ IsNearest(GrowthOf(result[i]).v, (cur - prev) * 1000, prev)
                /\ prev < 0 => /\ IsNum(GrowthOf(result[i]))
                               /\ IsNearest(GrowthOf(result[i]).v, (prev - cur) * 1000, -prev)
        /\ \A p \in DOMAIN args :
            p # MinIn(DOMAIN args)
                => Cardinality({i \in DOMAIN result : result[i].period = p}) = 1
        /\ \A i, j \in DOMAIN result : i < j => result[i].period < result[j].period
        /\ (/\ DOMAIN args = 1..3
            /\ args[1].total_tax = 100 /\ args[2].total_tax = 110 /\ args[3].total_tax = 99)
            => /\ Len(result) = 2
               /\ GrowthOf(result[1]) = Num(100)
               /\ GrowthOf(result[2]) = Num(-100)

\* floor(4 * 10^8 * a / b) for b > 0
FloorOfFourE8(a, b) == ScaledDiv(4 * a, b, 4).q

\* C10: cv = std/mean*100 when the mean of the monthly totals is > 0 and 0
\* otherwise, rated Low if cv < 10, Medium if 10 <= cv < 20, High otherwise.
\* With a = n(n*sum(x^2) - sum(x)^2) and b = (n-1)*sum(x)^2, (std/mean)^2 is
\* a/b; the reported cv is h hundredths with (2h-1)^2 <= 4*10^8*a/b <=
\* (2h+1)^2, the hundredth nearest to 100*std/mean.
C10_Volatility ==
    Done("calc_volatility") =>
        LET n == Len(args)
            sum == SumSeq(args)
            a == n * (n * SumSeq([i \in DOMAIN args |-> args[i] * args[i]]) - sum * sum)
            b == (n - 1) * sum * sum
            cv == result.coefficient_of_variation
            rating == result.volatility_rating
        IN  /\ (n = 0 \/ sum <= 0) => cv = Num(0) /\ rating = "Low"
            /\ (n = 1 /\ sum > 0) => IsNaN(cv) /\ rating = "High"
            /\ (n >= 2 /\ sum > 0) =>
                /\ IsNum(cv) /\ cv.v >= 0
                /\ cv.v > 0 => (2 * cv.v - 1) * (2 * cv.v - 1) <= FloorOfFourE8(a, b)
                /\ FloorOfFourE8(a, b) <= (2 * cv.v + 1) * (2 * cv.v + 1)
                /\ (rating = "Low") <=> 100 * a < b
                /\ (rating = "Medium") <=> (b <= 100 * a /\ 25 * a < b)
                /\ (rating = "High") <=> b <= 25 * a

C10_Witness ==
    /\ Done("calc_volatility")
    /\ args = <<100, 125, 100>>
    /\ result.coefficient_of_variation = Num(1332)
    /\ result.volatility_rating = "Medium"


\* C11 (as claimed): the monthly totals 100, 100, 100 give cv = 0 and rating
\* Low; the monthly totals 50, 100, 150 give a cv of about 40.8 (40.75 to
\* 40.85) and rating High.
C11_VolatilityExamples ==
    Done("calc_volatility") =>
        /\ args = <<100, 100, 100>>
            => /\ result.coefficient_of_variation = Num(0)
               /\ result.volatility_rating = "Low"
        /\ args = <<50, 100, 150>>
            => /\ IsNum(result.coefficient_of_variation)
               /\ 4075 <= result.coefficient_of_variation.v
               /\ result.coefficient_of_variation.v <= 4085
               /\ result.volatility_rating = "High"

\* C11 (amended): the monthly totals 100, 100, 100 give cv = 0 and rating
\* Low; the monthly totals 50, 100, 150 give cv = 50.0 (the sample standard
\* deviation 50 over the mean 100) and rating High.
C11_VolatilityExamplesAmended ==
    Done("calc_volatility") =>
        /\ args = <<100, 100, 100>>
            => /\ result.coefficient_of_variation = Num(0)
               /\ result.volatility_rating = "Low"
        /\ args = <<50, 100, 150>>
            => /\ result.coefficient_of_variation = Num(5000)
               /\ result.volatility_rating = "High"

C11_Witness ==
    /\ Done("calc_volatility")
    /\ args = <<50, 100, 150>>
    /\ result.std_monthly_tax_squared = [k |-> "num", n |-> 15000, d |-> 6]
    /\ result.volatility_rating = "High"


\* The declarations of the table that the statement selects for the period p,
\* and those of them that are undervalued at the threshold of the call.
DeclsOf(p) ==
    {i \in DOMAIN args.rows :
        /\ args.rows[i].del_yn = "N"
        /\ args.rows[i].yy >= 20
        /\ 2000 + args.rows[i].yy = p}

CountedOf(p) ==
    {i \in DeclsOf(p) :
        /\ args.rows[i].dcld_ut > 0
        /\ 10 * args.rows[i].assd_ut > args.rows[i].dcld_ut * args.threshold}

RECURSIVE InvoiceGap(_)
InvoiceGap(S) ==
    IF S = {} THEN 0
    ELSE LET i == CHOOSE j \in S : TRUE
         IN  (args.rows[i].assd_invc - args.rows[i].dcld_invc) + InvoiceGap(S \ {i})

\* C12: in calc_undervaluation_stats, for every threshold, a declaration is
\* counted in underval_count iff its declared unit value is > 0 and its
\* assessed unit value is > declared unit value * threshold; underval_rate is
\* underval_count / total_count * 100 rounded to 2 decimals; and
\* estimated_loss_usd is the sum of (assessed invoice amount - declared
\* invoice amount) over exactly the declarations counted.
C12_UndervaluationStats ==
    Done("calc_undervaluation_stats") =>
        \A k \in DOMAIN result :
            LET r == result[k]
            IN  /\ r.underval_count = Cardinality(CountedOf(r.period))
                /\ IsNearest(r.underval_rate, r.underval_count * 10000, r.total_count)
                /\ r.estimated_loss_usd = InvoiceGap(CountedOf(r.period))

C12_Witness ==
    /\ Done("calc_undervaluation_stats")
    /\ \E k \in DOMAIN result :
          /\ result[k].total_count = 3
          /\ result[k].underval_count = 1
          /\ result[k].underval_rate = 3333
          /\ result[k].estimated_loss_usd = 50
          /\ \E i \in DeclsOf(result[k].period) :
                args.rows[i].dcld_ut = 0 /\ args.rows[i].assd_ut > 0
          /\ \E i \in DeclsOf(result[k].period) :
                /\ args.rows[i].dcld_ut > 0
                /\ 10 * args.rows[i].assd_ut = args.rows[i].dcld_ut * args.threshold

\* C13: every period row of calc_undervaluation_stats and of
\* calc_hs_misclassification_rate has total_count >= 1, a count between 0 and
\* total_count, and a rate between 0 and 100.
C13_RateRows ==
    /\ Done("calc_undervaluation_stats") =>
          \A k \in DOMAIN result :
              /\ result[k].total_count >= 1
              /\ 0 <= result[k].underval_count
              /\ result[k].underval_count <= result[k].total_count
              /\ 0 <= result[k].underval_rate
              /\ result[k].underval_rate <= 10000
    /\ Done("calc_hs_misclassification_rate") =>
          \A k \in DOMAIN result :
              /\ result[k].total_count >= 1
              /\ 0 <= result[k].misclass_count
              /\ result[k].misclass_count <= result[k].total_count
              /\ 0 <= result[k].misclass_rate
              /\ result[k].misclass_rate <= 10000

C13_Witness ==
    /\ Done("calc_hs_misclassification_rate")
    /\ Len(args) = 3
    /\ Len(result) = 2
    /\ result[1].period = 2021 /\ result[1].misclass_rate = 10000
    /\ result[2].period = 2020 /\ result[2].total_count = 2
    /\ result[2].misclass_rate = 5000


\* C14: when the query of calc_hhi_by_dimension returns zero rows, or rows
\* whose values sum to 0, the call returns hhi 0, the label
\* 'Low (Competitive)', top_5_share 0 and total_categories = the number of
\* rows, instead of raising.
C14_HhiToleratesZeroTotal ==
    (/\ Done("calc_hhi_by_dimension")
     /\ args.dimension \in {"hs2", "country"}
     /\ SumSeq(args.rows) = 0)
        => /\ result.raised = "none"
           /\ result.hhi = 0
           /\ result.concentration_level = "Low (Competitive)"
           /\ result.top_5_share = 0
           /\ result.total_categories = Len(args.rows)

\* C15: when the query of calc_pareto_analysis returns zero rows the call
\* returns an empty table, and when it returns rows whose values sum to 0
\* the call does not fail and every row has share_pct 0 and cumulative_pct 0.
C15_ParetoGuardsZeroTotal ==
    (/\ Done("calc_pareto_analysis")
     /\ args.dimension \in {"hs2", "country"}
     /\ SumSeq(args.rows) = 0)
        => /\ result.raised = "none"
           /\ Len(result.df) = Len(args.rows)
           /\ \A i \in DOMAIN result.df :
                 /\ result.df[i].share_pct = Num(0)
                 /\ result.df[i].cumulative_pct = Num(0)

\* the output rows of a growth calculation as period and growth value
GrowthRows ==
    IF op = "fetch_yearly_data"
    THEN [i \in DOMAIN result |->
            [period |-> result[i].YEAR, growth |-> result[i].GROWTH_RATE]]
    ELSE [i \in DOMAIN result |->
            [period |-> result[i].period, growth |-> GrowthOf(result[i])]]

\* C16: in calc_yoy_growth, calc_mom_growth and fetch_yearly_data a period
\* whose preceding total is 0 gets the growth value 0 or not-a-number, or is
\* left out of the output; no output row carries an infinite growth value.
C16_ZeroPreviousGuarded ==
    (GrowthDone \/ Done("fetch_yearly_data")) =>
        \A i \in DOMAIN GrowthRows :
            LET r == GrowthRows[i]
            IN  /\ r.growth.k # "inf"
                /\ (/\ r.period # MinIn(DOMAIN args)
                    /\ args[PrecedingPeriod(r.period)].total_tax = 0)
                      => r.growth \in {Num(0), NaN}


\* What a run has done so far, read off its log.
EventsOf(ev) == {i \in DOMAIN result.log : result.log[i].ev = ev}

Acquired == \E i \in EventsOf("connect") : result.log[i].ok

StepRaised ==
    \E i \in DOMAIN result.log :
        /\ result.log[i].ev \in {"query", "transform", "save", "load"}
        /\ ~result.log[i].ok

SavesOf(path) == {i \in EventsOf("save") : result.log[i].what = path}

Saved(path) == \E i \in SavesOf(path) : result.log[i].ok

OutputPaths == {args[i].what : i \in {j \in DOMAIN args : args[j].kind = "save"}}

\* C17: in every run of a script's main in which the connection is acquired,
\* it is acquired exactly once and closed exactly once; the close comes after
\* the last query and the last attempt to write or read a file, no query
\* follows it, and it has happened by the end of the run whether all steps
\* succeeded or one of them raised.
C17_ConnectionScope ==
    /\ Cardinality(EventsOf("connect")) <= 1
    /\ Cardinality(EventsOf("close")) <= 1
    /\ EventsOf("close") # {} => Acquired
    /\ \A i \in EventsOf("close") :
          \A j \in EventsOf("query") \cup EventsOf("save") \cup EventsOf("load") : j < i
    /\ (pc = "exit" /\ Acquired)
          => /\ Cardinality(EventsOf("close")) = 1
             /\ result.log[Len(result.log)].ev = "close"

C17_Witness ==
    /\ pc = "exit"
    /\ Acquired
    /\ Saved(RevenuePath)
    /\ \E i \in EventsOf("query") : ~result.log[i].ok
    /\ result.log[Len(result.log)].ev = "close"

\* C18 (as claimed): a run exits with code 1 when the connection cannot be
\* established and with code 0 in every other outcome, also when a query or
\* a file write fails after the connection was acquired; on connection
\* failure one connection attempt is made, no query is issued and no output
\* file is written.
C18_ExitCode ==
    pc = "exit" =>
        /\ result.exit_code = (IF Acquired THEN 0 ELSE 1)
        /\ ~Acquired => result.log = <<Event("connect", "db", FALSE)>>

\* C18 (amended): a run exits with code 1 when the connection cannot be
\* established and also when a query, a transform or a file operation raises
\* after the connection was acquired; it exits with code 0 when the run
\* completes; on connection failure one connection attempt is made, no query
\* is issued and no output file is written.
C18_ExitCodeAmended ==
    pc = "exit" =>
        /\ result.exit_code = (IF Acquired /\ ~StepRaised THEN 0 ELSE 1)
        /\ ~Acquired => result.log = <<Event("connect", "db", FALSE)>>

C18_Witness ==
    /\ pc = "exit"
    /\ Acquired
    /\ \E i \in EventsOf("save") : ~result.log[i].ok
    /\ result.exit_code = 1

\* C19: at the end of every run of generate_reports or create_styled_reports
\* either both the revenue and the anomaly workbook have been saved or
\* neither has.
C19_BothOrNeither ==
    (pc = "exit" /\ op \in {"generate_reports", "create_styled_reports"})
        => (Saved(RevenuePath) <=> Saved(AnomalyPath))

\* C20 (as claimed): within one run no output workbook path is saved a second
\* time and no step reads an output file back; a run that completes has
\* written each of its output paths exactly once.
C20_WrittenOnce ==
    /\ \A path \in OutputPaths : Cardinality(SavesOf(path)) <= 1
    /\ EventsOf("load") = {}
    /\ (pc = "exit" /\ Acquired /\ ~StepRaised)
          => \A path \in OutputPaths : Cardinality(SavesOf(path)) = 1

\* C20 (amended): in detect_anomalies, generate_reports and
\* create_styled_reports no output workbook path is saved a second time and
\* no step reads an output file back, and a run that completes has written
\* each output path exactly once.  In analyze_customs_revenue, add_charts
\* reads the workbook back once after save_to_excel has written it and then
\* saves it once more to the same path, so a run that completes has written
\* its output path twice (once when add_charts skipped the charts).
C20_WrittenOnceAmended ==
    /\ op # "analyze_customs_revenue" => C20_WrittenOnce
    /\ op = "analyze_customs_revenue" =>
          /\ \A path \in OutputPaths : Cardinality(SavesOf(path)) <= 2
          /\ Cardinality(EventsOf("load")) <= 1
          /\ \A i \in EventsOf("load") :
                /\ result.log[i].what \in OutputPaths
                /\ \E j \in SavesOf(result.log[i].what) : j < i /\ result.log[j].ok
          /\ \A path \in OutputPaths :
                Cardinality(SavesOf(path)) = 2
                    => \E i \in EventsOf("load") :
                          /\ result.log[i].ok
                          /\ \E j, k \in SavesOf(path) : j < i /\ i < k
          /\ (pc = "exit" /\ Acquired /\ ~StepRaised)
                => \A path \in OutputPaths :
                      Cardinality(SavesOf(path)) =
                          (IF EventsOf("load") = {} THEN 1 ELSE 2)

C20_Witness ==
    /\ pc = "exit"
    /\ op = "analyze_customs_revenue"
    /\ result.exit_code = 0
    /\ Cardinality(EventsOf("load")) = 1
    /\ \E path \in OutputPaths :
          /\ Cardinality(SavesOf(path)) = 2
          /\ \A i \in SavesOf(path) : result.log[i].ok


CountryDone ==
    \/ Done("calc_hhi_by_dimension country")
    \/ Done("calc_pareto_analysis country")
    \/ Done("fetch_country_data")

\* the rows of the item table that pass the statement's filters other than
\* the one on the country code
ValidItems ==
    {i \in DOMAIN args :
        /\ args[i].del_yn = "N"
        /\ op # "fetch_country_data" => args[i].yy >= 23}

RECURSIVE UsdOver(_)
UsdOver(S) ==
    IF S = {} THEN 0
    ELSE LET i == CHOOSE j \in S : TRUE IN args[i].usd + UsdOver(S \ {i})

\* the category rows of the result as category and value
CountryRowsOut ==
    IF op = "fetch_country_data"
    THEN [i \in DOMAIN result |->
            [category |-> result[i].COUNTRY_CODE, value |-> result[i].TOTAL_VALUE_USD]]
    ELSE [i \in DOMAIN result.rows |->
            [category |-> result.rows[i].category, value |-> result.rows[i].value]]

\* C21: calc_hhi_by_dimension('country'), calc_pareto_analysis('country')
\* and fetch_country_data do not drop the declarations whose country code
\* is null: they form one category of their own, and the grand total
\* includes their value.
C21_NullCountryKept ==
    CountryDone =>
        LET nulls == {i \in ValidItems : args[i].orig_cnty_cd = NoCountry}
        IN  /\ SumSeq(ValuesOf(CountryRowsOut)) = UsdOver(ValidItems)
            /\ nulls # {} =>
                  \E k \in DOMAIN CountryRowsOut :
                      /\ CountryRowsOut[k].category = NoCountry
                      /\ CountryRowsOut[k].value = UsdOver(nulls)


\* C22: in a detect_anomalies run started with threshold t, every
\* undervalued-declaration predicate of the run (in detect_undervaluation,
\* calculate_risk_score and identify_high_risk_importers) uses the ratio t,
\* and with no threshold given every one of them uses 1.3.
C22_ThresholdEverywhere ==
    Done("detect_anomalies") =>
        LET t == IF args.threshold.given THEN args.threshold.value ELSE 13
        IN  \A i \in DOMAIN args.rows :
              LET expected == /\ args.rows[i].dcld_ut > 0
                              /\ 10 * args.rows[i].assd_ut > t * args.rows[i].dcld_ut
              IN  /\ result.detect_undervaluation[i] = expected
                  /\ result.calculate_risk_score[i] = expected
                  /\ result.identify_high_risk_importers[i] = expected


\* C23: every combination calc_risk_score_by_hs_country returns has
\* total_count >= min_count and at least one undervalued or HS-changed
\* declaration; its risk_score is (underval_count/total_count*100)*3 +
\* (hs_change_count/total_count*100)*2 + bonus rounded to 1 decimal, where
\* bonus is 10 when total_value > 100,000,000, 5 when 10,000,000 <
\* total_value <= 100,000,000 and 1 otherwise; so the score exceeds the
\* score without bonus for the same counts by at least 1.
C23_VolumeBonusScore ==
    Done("calc_risk_score_by_hs_country") =>
        \A k \in DOMAIN result :
            LET r == result[k]
                g == args.rows[r.key]
                t == g.total
                base == 300 * g.undervalued + 200 * g.hs_changed
            IN  /\ r.total_count = t /\ t >= args.min_count
                /\ r.underval_count = g.undervalued
                /\ r.hs_change_count = g.hs_changed
                /\ g.undervalued > 0 \/ g.hs_changed > 0
                /\ \E bonus \in {1, 5, 10} :
                      /\ bonus = 10 <=> g.total_value > 100000000
                      /\ bonus = 5 <=> (10000000 < g.total_value
                                        /\ g.total_value <= 100000000)
                      /\ IsNearest(r.risk_score, 10 * (base + bonus * t), t)
                /\ \E plain \in 0..5000 :
                      /\ IsNearest(plain, 10 * base, t)
                      /\ r.risk_score >= plain + 10

C23_Witness ==
    /\ Done("calc_risk_score_by_hs_country")
    /\ Len(result) = 2
    /\ result[1].total_value = 100000000
    /\ result[1].total_count = 30 /\ result[1].hs_change_count = 10
    /\ result[1].underval_count = 0
    /\ result[1].risk_score = 717
    /\ result[2].total_value = 10000000
    /\ result[2].risk_score = 677


\* C24: after any sequence of KPICalculator operations, interleaved with
\* callers modifying the values those operations returned, KPI_DEFINITIONS
\* holds the same 16 entries with unchanged code, category, benchmark,
\* target and direction.
C24_DefinitionsNeverMutated ==
    /\ DOMAIN args.dict = KpiCodes
    /\ Cardinality(DOMAIN args.dict) = 16
    /\ \A k \in KpiCodes : args.objects[args.dict[k]] = KPI_DEFINITIONS[k]


\* C25: for a monthly series with zero rows or with exactly one row,
\* calc_volatility returns the coefficient_of_variation 0 and the rating
\* 'Low', never a not-a-number cv and never the rating 'High'.
C25_DegenerateSeries ==
    (Done("calc_volatility") /\ Len(args) <= 1)
        => /\ result.coefficient_of_variation = Num(0)
           /\ result.volatility_rating = "Low"


\* the rows of a frame that are about the year p
RowsOfYear(df, p) == {i \in DOMAIN df : df[i].period = p}
RowsOfYEAR(df, p) == {i \in DOMAIN df : df[i].YEAR = p}

\* C26: for the same yearly rows, the GROWTH_RATE that fetch_yearly_data
\* computes equals, for every year except the earliest, the yoy_growth_pct
\* that calc_yoy_growth computes; the earliest year is kept with an absent
\* growth value by fetch_yearly_data and is dropped by calc_yoy_growth.
C26_GrowthSitesAgree ==
    Done("yearly growth") =>
        \A p \in DOMAIN args :
            LET f == result.fetch_yearly_data
                y == result.calc_yoy_growth
            IN  /\ Cardinality(RowsOfYEAR(f, p)) = 1
                /\ IF p = MinIn(DOMAIN args)
                   THEN /\ RowsOfYear(y, p) = {}
                        /\ \A i \in RowsOfYEAR(f, p) : f[i].GROWTH_RATE = NaN
                   ELSE /\ Cardinality(RowsOfYear(y, p)) = 1
                        /\ \A i \in RowsOfYEAR(f, p) :
                              \A j \in RowsOfYear(y, p) :
                                 f[i].GROWTH_RATE = y[j].yoy_growth_pct


\* C27: the concentration_level returned by calc_hhi_by_dimension agrees with
\* the (rounded) hhi returned alongside it: 'Low (Competitive)' iff
\* hhi < 1000, 'Moderate' iff 1000 <= hhi < 1800, 'High (Concentrated)' iff
\* hhi >= 1800.
C27_LevelAgreesWithReturnedHhi ==
    (Done("calc_hhi_by_dimension") /\ result.raised = "none") =>
        /\ result.concentration_level = "Low (Competitive)"
              <=> result.hhi < HhiLow
        /\ result.concentration_level = "Moderate"
              <=> (HhiLow <= result.hhi /\ result.hhi < HhiModerate)
        /\ result.concentration_level = "High (Concentrated)"
              <=> result.hhi >= HhiModerate


\* C28: the text gauge add_scorecard_table writes for a scorecard row always
\* has exactly 10 characters, of which between 0 and 10 are filled blocks,
\* for every actual and target: a negative actual, an actual above target
\* and a target <= 0 included.
C28_GaugeTenCharacters ==
    Done("add_scorecard_table") =>
        \A i \in DOMAIN result :
            /\ Len(result[i].gauge) = GaugeWidth
            /\ Cardinality({j \in DOMAIN result[i].gauge :
                              result[i].gauge[j] = "filled"}) \in 0..GaugeWidth


\* C29: for the same counts the RISK_SCORE identify_high_risk_importers
\* computes in post-processing equals the RISK_SCORE the query of
\* calculate_risk_score computes, also when the unrounded score lies exactly
\* halfway between two one-decimal values.
C29_ImporterScoreAgrees ==
    Done("identify_high_risk_importers") =>
        \A i \in DOMAIN result :
            result[i].RISK_SCORE =
                RiskScoreExpr(result[i].UNDERVALUE_CNT, result[i].HS_CHANGE_CNT,
                              result[i].TOTAL_CNT)


\* actual is at least as good as the level, in the direction
Meets(actual, level, direction) ==
    IF direction = "higher" THEN actual >= level ELSE actual <= level

StatusRank(status) ==
    CASE status = "Excellent" -> 2
      [] status = "Good" -> 1
      [] status = "Needs Improvement" -> 0

\* the entry stored under the key k is well-formed
WellFormed(k) ==
    LET defn == KPI_DEFINITIONS[k]
    IN  /\ defn.code = k
        /\ defn.category \in KPICategory
        /\ defn.direction \in Directions
        /\ defn.benchmark \in Int
        /\ defn.target \in Int
        /\ Meets(defn.target, defn.benchmark, defn.direction)

\* C30: every entry of KPI_DEFINITIONS is well-formed (key = code, category
\* one of the four dimensions, direction 'higher' or 'lower', benchmark and
\* target set, target at least as demanding as benchmark in the direction),
\* so that for every definition and actual the 'Excellent' condition of
\* _get_status implies its 'Good' condition and a better actual never gets
\* a worse status.
C30_DefinitionsWellFormed ==
    Done("definition status") =>
        LET defn == KPI_DEFINITIONS[args.code]
            better == IF defn.direction = "higher" THEN args.actual + 1
                      ELSE args.actual - 1
        IN  /\ \A k \in DOMAIN KPI_DEFINITIONS : WellFormed(k)
            /\ Meets(args.actual, defn.target, defn.direction)
                  => Meets(args.actual, defn.benchmark, defn.direction)
            /\ result = "Excellent"
                  => Meets(args.actual, defn.benchmark, defn.direction)
            /\ StatusRank(definition_status(args.code, better)) >= StatusRank(result)

C30_Witness ==
    /\ Done("definition status")
    /\ args.code = "OD001"
    /\ args.actual = KPI_DEFINITIONS["OD001"].target
    /\ result = "Excellent"
    /\ definition_status("OD001", args.actual + 1) = "Good"

====
